---- MODULE Spec2Model ----
(***************************************************************************)
(* Commander-worker IPC of codi-rs (src/codi-rs/src/orchestrate/ipc).     *)
(*                                                                         *)
(* One worker-side IpcClient (client.rs) talks to one IpcServer            *)
(* (server.rs) over one duplex stream.  The tasks of the system are:       *)
(*   - the worker's caller task, which runs the public client operations   *)
(*     one at a time (they all take &mut self);                            *)
(*   - the client's background read loop spawned by connect();             *)
(*   - the server's accept() and its per-connection read loop;             *)
(*   - the commander's orchestration task, which consumes the delivery     *)
(*     channel and sends CommanderMessages with IpcServer::send.           *)
(* Every await point of the code that another task can observe separates   *)
(* two actions of the model.                                               *)
(***************************************************************************)
EXTENDS Naturals, Sequences, FiniteSets

(* ------------------------------------------------------------------ *)
(* Bounds of the model                                                 *)
(* ------------------------------------------------------------------ *)

\* request_permission calls the caller task makes
MaxRequests == 2

\* handshake calls the caller task makes
MaxHandshakes == 2

\* frames the commander sends on its own initiative (responses, Cancel, Ping)
MaxCmdFrames == 2

\* calls the caller task starts plus frames the commander sends on its own
\* initiative
MaxEvents == 4

\* seconds of the permission wait that pass in one Tick
TickStep == 150

\* connections made to the server's listener
MaxConns == 2

\* lines written by the peers of the server's connections and by the peer of
\* the client's stream, in total
MaxLines == 4

\* frames on the worker's stream not yet read by the commander when a send_*
\* call is made
MaxUnread == 1

\* calls of send, broadcast, disconnect and stop, and of accept before start
MaxSrvCalls == 1

\* connections made plus lines written plus calls made on the server
MaxSteps == 5

\* send() and broadcast() calls that may be in progress at once
MaxWriters == 2

\* Longest string a message of the codec model carries
MaxStrLen == 2

\* connect() on the pipe-based platform: `attempts < 50`
PIPE_RETRIES == 50

\* connect() on the pipe-based platform: Duration::from_millis(50)
PIPE_SLEEP_MS == 50

\* poll_write calls write_all needs for one encoded frame
FrameChunks == 2

\* IpcServer::new: mpsc::channel(100)
CHANNEL_CAPACITY == 100

\* messages the read loop of the channel model may decode: one more than the
\* channel holds, so that a send() meets the channel full
MaxChFrames == 101

\* tool calls in one response of the provider
MaxBatch == 2

\* AgentConfig.max_iterations of the agent model
MaxIterations == 2

\* AgentConfig.max_consecutive_errors of the agent model
MaxConsecErrors == 2

(* ------------------------------------------------------------------ *)
(* Program constants and vocabularies                                  *)
(* ------------------------------------------------------------------ *)

\* Duration::from_secs(300) of request_permission
PERMISSION_TIMEOUT_SECS == 300

\* The worker id the client was created with
WorkerId == "worker-1"

ReqIds == 1..MaxRequests

\* PermissionResult
Results == {"Approve", "Deny", "Abort"}

\* Option<T>: None is the empty sequence, Some(x) is <<x>>
None == <<>>

Some(x) == <<x>>

\* WorkerConfig: the worker's local policy
LocalConfig ==
    [auto_approve |-> <<"list_files">>,
     dangerous_patterns |-> <<"sudo">>,
     timeout_ms |-> 5000]

\* CommanderMessage::HandshakeAck payloads the commander answers with
FullAck ==
    [accepted |-> TRUE, auto_approve |-> <<"read_file">>,
     dangerous_patterns |-> <<"rm -rf">>, timeout_ms |-> 1234, reason |-> None]

EmptyAck ==
    [accepted |-> TRUE, auto_approve |-> <<>>,
     dangerous_patterns |-> <<>>, timeout_ms |-> 0, reason |-> None]

RejectAck ==
    [accepted |-> FALSE, auto_approve |-> <<>>,
     dangerous_patterns |-> <<>>, timeout_ms |-> 0, reason |-> Some("quota exceeded")]

RejectAckNoReason ==
    [accepted |-> FALSE, auto_approve |-> <<>>,
     dangerous_patterns |-> <<>>, timeout_ms |-> 0, reason |-> None]

\* Accepting acks that give some of the policy and leave the rest to the worker
ListOnlyAck ==
    [accepted |-> TRUE, auto_approve |-> <<"read_file">>,
     dangerous_patterns |-> <<>>, timeout_ms |-> 0, reason |-> None]

NoListAck ==
    [accepted |-> TRUE, auto_approve |-> <<>>,
     dangerous_patterns |-> <<"rm -rf">>, timeout_ms |-> 1234, reason |-> None]

Acks == {FullAck, EmptyAck, ListOnlyAck, NoListAck, RejectAck, RejectAckNoReason}

\* WorkerMessage frames
HandshakeMsg == [type |-> "Handshake", worker_id |-> WorkerId]

PermissionRequestMsg(id) == [type |-> "PermissionRequest", request_id |-> id]

\* CommanderMessage frames
HandshakeAckMsg(a) == [type |-> "HandshakeAck", ack |-> a]

PermissionResponseMsg(id, r) ==
    [type |-> "PermissionResponse", request_id |-> id, result |-> r]

CancelMsg == [type |-> "Cancel"]

PingMsg == [type |-> "Ping"]

\* A request id that no request of this client carries
ForeignId == MaxRequests + 1

\* What the commander sends on its own initiative when it has received the
\* requests `known`: request ids are unique and generated by the worker, so a
\* response carries the id of a request the commander has seen, or a foreign one
UnsolicitedMsgs(known) ==
    {PermissionResponseMsg(id, r) : id \in known \cup {ForeignId}, r \in {"Approve", "Deny"}}
        \cup {CancelMsg, PingMsg}

\* Connections of the server, numbered in the order they were made
Conns == 1..MaxConns

\* Worker ids that peers put in their Handshake
WorkerIds == {"worker-1", "worker-2"}

\* No connection: the registry has no entry for a worker id
NoConn == 0

\* A message: its tag, a string field, and for a permission_response its
\* result
Message(tag, text, result) == [type |-> tag, text |-> text, result |-> result]

\* No message
NoMessage == Message("none", <<>>, "none")

\* AgentConfig::default() with no callbacks: nothing is auto-approved and no
\* on_confirm is installed
DefaultConfig == [all |-> FALSE, tools |-> {}, confirm |-> FALSE]

\* process_tool_calls: `aborted` and `has_error` at their initial values
NoFlags == [aborted |-> FALSE, has_error |-> FALSE]

\* The error decode returns
DecodeError == Message("error", <<>>, "none")

\* The send()/broadcast() calls of the write model
Tasks == 1..MaxWriters

\* "No task": the mutex is free
NoTask == 0

\* A call that has not been made
IdleTask ==
    [op |-> "none", pc |-> "idle", conn |-> NoConn, todo |-> {}, off |-> 0, res |-> "none"]

\* Lines a peer writes to the server.  Every WorkerMessage carries the unique
\* id generate_message_id gave it: here the connection and the position
HandshakeLine(w, c, n) == [type |-> "Handshake", worker_id |-> w, id |-> <<c, n>>]

FrameLine(c, n) == [type |-> "StatusUpdate", id |-> <<c, n>>]

\* A line that is not the JSON of a message
GarbageLine(c, n) == [type |-> "Garbage", id |-> <<c, n>>]

\* What read_line leaves in `line` at end of file: nothing
EofLine == [type |-> "Eof"]

\* The first line a peer writes on connection c, and its n-th line after that
FirstLines(c) ==
    {HandshakeLine(w, c, 1) : w \in WorkerIds} \cup {FrameLine(c, 1), GarbageLine(c, 1)}

LaterLines(c, n) == {FrameLine(c, n), GarbageLine(c, n)}

\* Lines the peer of the client's stream may write, the n-th being written
RawClientLines(n) == {GarbageLine(NoConn, n), CancelMsg, PingMsg}

\* A call's return value: Ok or an IpcClientError variant, with the
\* HandshakeAck or the message it carries when it has one
Ret(op, res) == [op |-> op, res |-> res, ack |-> None, msg |-> ""]

(* ------------------------------------------------------------------ *)
(* State                                                               *)
(* ------------------------------------------------------------------ *)

VARIABLES
    \* IpcClient fields
    writer,               \* TRUE iff writer is Some(write half)
    pending_permissions,  \* keys of the HashMap<request id, PendingPermission>
    cancelled,            \* the cancellation flag
    handshake_ack,        \* the handshake-ack slot: None or an ack
    cancel_tx,            \* TRUE iff cancel_tx is Some(sender)
    \* the oneshot channel of each request: "unused", "open" (receiver alive,
    \* no value), a PermissionResult (value sent, not yet received), "dropped"
    \* (sender dropped without a value) or "closed" (receiver dropped)
    slot,
    \* the caller task
    callerPc,             \* "idle", "hs_take", "rp_insert", "rp_write", "rp_wait"
    curId,                \* request id of the request_permission call in progress
    nextId,               \* next request id generate_message_id hands out
    waited,               \* seconds the current permission wait has lasted
    hsCalls,              \* handshake calls started
    rpCalls,              \* request_permission calls started
    lastRet,              \* what the latest handshake or request_permission call returned
    rpOutcome,            \* per request id: what its request_permission call returned
    \* the client's read loop
    readerPc,             \* "none", "idle", "cancel_drain", "stopped"
    cancelSignal,         \* a () waits in the cancel_rx channel
    \* the connection
    w2c,                  \* frames written by the worker, not yet read by the server
    c2w,                  \* frames written by the commander, not yet read by the client
    peerClosed,           \* the commander's end of the stream is closed
    \* IpcServer fields and tasks
    listener,             \* TRUE iff listener is Some
    workers,              \* keys of the registry
    incoming,             \* the delivery channel: <<worker id, message>> pairs
    srvConn,              \* "none", "reading" (read loop runs), "rejected", "ended"
    cmdFrames,            \* unsolicited frames the commander has sent
    knownIds,             \* request ids of the PermissionRequests the commander has received
    exited,               \* the commander process has ended
    \* history
    acksSent,             \* acks the commander has answered with
    lateResp,             \* ids of PermissionResponses handled after their request's completion
    lastDrained,          \* request ids the latest Cancel took out of the table
    reconnectFlag,        \* the cancellation flag as the latest connect() after a disconnect() found it
    wtask,                \* each send()/broadcast() call in progress: its target and position
    wlock,                \* holder of each connection's ConnectedWorker mutex
    wire,                 \* chunks written on each connection's write half, in order
    \* transport::connect on the pipe-based platform
    pipePc,               \* "idle", "opening", "sleeping", "connected" or "failed"
    pipeAttempts,         \* the local `attempts`
    pipeOpens,            \* calls of ClientOptions::open made by this connect()
    pipeSlept,            \* milliseconds this connect() has slept
    pipeUp,               \* a server instance of the pipe is there to open
    \* encode and decode of one message
    rtPc,                 \* "idle", "picked", "encoded" or "decoded"
    rtMsg,                \* the message handed to encode
    rtLine,               \* the line encode returned
    rtOut,                \* what decode returned for that line
    \* one read loop and the delivery channel at its real capacity
    chPc,                 \* the read loop: "read", "send", "send_wait" or "ended"
    chLine,               \* the decoded message tx.send() is called with
    chRead,               \* lines of the worker decoded so far
    chBuf,                \* the channel's buffer: pairs sent and not yet received
    chGot,                \* pairs the receiver has received, in order
    chRx,                 \* the receiver of the channel exists
    chBad,                \* a line that does not decode has been read
    chWaited,             \* a send() of the read loop has found the channel full
    \* Agent: one chat() turn
    agPc,                 \* "new", "idle", "loop", "tools", "match" or "returned"
    agCfg,                \* auto_approve_all, auto_approve_tools, on_confirm.is_some()
    agIter,               \* state.current_iteration
    agErrs,               \* state.consecutive_errors
    agCalls,              \* provider.chat() calls made
    agBatch,              \* response.tool_calls: the tool names
    agIdx,                \* the tool call the for loop is at
    agAsked,              \* <<index, answer>> for each on_confirm call of the batch
    agRan,                \* indices of the batch's tool calls that were executed
    agResults,            \* `results` of process_tool_calls
    agFlags,              \* `aborted` and `has_error` of process_tool_calls
    agRet,                \* what process_tool_calls returned
    agEnd,                \* why chat() left its loop
    \* IpcServer with several connections
    registry,             \* workers: worker id -> connection whose write half is stored
    conn,                 \* per connection: "idle", "queued", "registered", "reading",
                          \* "rejected", "ended"
    inbuf,                \* per connection: lines written by the peer, not yet read
    peerOpen,             \* per connection: the peer's end is open
    connWid,              \* per connection: worker id of its Handshake ("" before)
    delivery,             \* the delivery channel: <<worker id, message>> pairs published
    wrote,                \* per connection: every line the peer has written
    sent,                 \* per connection: frames the server has written to it
    lastCall,             \* what the latest accept/send/broadcast/disconnect/stop returned
    srvCalls,             \* send, broadcast, disconnect, stop calls made
    evicted,              \* <<c, o>>: the end of c's read loop removed the entry of o
    rawWrote,             \* lines the peer of the client's stream has written
    \* IpcServer and its endpoint
    endpoint,             \* the file at socket_path: "none", "own" (bound by this
                          \* server), "foreign" (a file made by another process)
                          \* or "live" (another server is listening on it)
    incoming_rx,          \* TRUE iff incoming_rx is Some(receiver)
    receivers,            \* receivers of the delivery channel handed out
    dropped,              \* the IpcServer has been dropped
    started               \* start() has been called on this IpcServer

clientVars == <<writer, pending_permissions, cancelled, handshake_ack, cancel_tx, slot>>

callerVars ==
    <<callerPc, curId, nextId, waited, hsCalls, rpCalls, lastRet, rpOutcome>>

readerVars == <<readerPc, cancelSignal>>

connVars == <<w2c, c2w, peerClosed>>

serverVars == <<listener, workers, incoming, srvConn, cmdFrames, knownIds, exited>>

historyVars == <<acksSent, lateResp, lastDrained, reconnectFlag>>

registryVars ==
    <<registry, conn, inbuf, peerOpen, connWid, delivery, wrote, sent, lastCall,
      srvCalls, evicted, rawWrote>>

\* The single worker-commander link
linkVars == <<clientVars, callerVars, readerVars, connVars, serverVars, historyVars>>

\* The server's endpoint, its receiver and its end
serviceVars == <<endpoint, incoming_rx, receivers, dropped, started>>

writeVars == <<wtask, wlock, wire>>

pipeVars == <<pipePc, pipeAttempts, pipeOpens, pipeSlept, pipeUp>>

rtVars == <<rtPc, rtMsg, rtLine, rtOut>>

chVars == <<chPc, chLine, chRead, chBuf, chGot, chRx, chBad, chWaited>>

agVars ==
    <<agPc, agCfg, agIter, agErrs, agCalls, agBatch, agIdx, agAsked, agRan,
      agResults, agFlags, agRet, agEnd>>

outerVars == <<pipeVars, rtVars, chVars, agVars>>

vars == <<linkVars, registryVars, serviceVars, writeVars, outerVars>>

\* What an IpcServer call returned: op its name, wid or c its argument
Call(op, wid, c, res) == [op |-> op, wid |-> wid, c |-> c, res |-> res]

\* IpcClient::new and IpcServer::new
Init ==
    /\ writer = FALSE
    /\ pending_permissions = {}
    /\ cancelled = FALSE
    /\ handshake_ack = None
    /\ cancel_tx = FALSE
    /\ slot = [id \in ReqIds |-> "unused"]
    /\ callerPc = "idle"
    /\ curId = 0
    /\ nextId = 1
    /\ waited = 0
    /\ hsCalls = 0
    /\ rpCalls = 0
    /\ lastRet = Ret("new", "Ok")
    /\ rpOutcome = [id \in ReqIds |-> "none"]
    /\ readerPc = "none"
    /\ cancelSignal = FALSE
    /\ w2c = <<>>
    /\ c2w = <<>>
    /\ peerClosed = FALSE
    /\ listener = FALSE
    /\ workers = {}
    /\ incoming = <<>>
    /\ srvConn = "none"
    /\ cmdFrames = 0
    /\ knownIds = {}
    /\ exited = FALSE
    /\ acksSent = {}
    /\ lateResp = {}
    /\ lastDrained = {}
    /\ reconnectFlag = "none"
    /\ registry = [w \in WorkerIds |-> NoConn]
    /\ conn = [c \in Conns |-> "idle"]
    /\ inbuf = [c \in Conns |-> <<>>]
    /\ peerOpen = [c \in Conns |-> FALSE]
    /\ connWid = [c \in Conns |-> ""]
    /\ delivery = <<>>
    /\ wrote = [c \in Conns |-> <<>>]
    /\ sent = [c \in Conns |-> 0]
    /\ lastCall = Call("new", "", NoConn, "Ok")
    /\ srvCalls = 0
    /\ evicted = {}
    /\ rawWrote = <<>>
    /\ endpoint = "none"
    /\ incoming_rx = TRUE
    /\ receivers = 0
    /\ dropped = FALSE
    /\ started = FALSE
    /\ wtask = [t \in Tasks |-> IdleTask]
    /\ wlock = [c \in Conns |-> NoTask]
    /\ wire = [c \in Conns |-> <<>>]
    /\ pipePc = "idle"
    /\ pipeAttempts = 0
    /\ pipeOpens = 0
    /\ pipeSlept = 0
    /\ pipeUp = FALSE
    /\ rtPc = "idle"
    /\ rtMsg = NoMessage
    /\ rtLine = <<>>
    /\ rtOut = NoMessage
    /\ chPc = "read"
    /\ chLine = EofLine
    /\ chRead = 0
    /\ chBuf = <<>>
    /\ chGot = <<>>
    /\ chRx = TRUE
    /\ chBad = FALSE
    /\ chWaited = FALSE
    /\ agPc = "new"
    /\ agCfg = DefaultConfig
    /\ agIter = 0
    /\ agErrs = 0
    /\ agCalls = 0
    /\ agBatch = <<>>
    /\ agIdx = 0
    /\ agAsked = <<>>
    /\ agRan = {}
    /\ agResults = <<>>
    /\ agFlags = NoFlags
    /\ agRet = "none"
    /\ agEnd = "none"

(* ------------------------------------------------------------------ *)
(* Pure parts of the client                                            *)
(* ------------------------------------------------------------------ *)

\* oneshot::Sender::send: the value is stored iff the receiver is still alive
\* and empty; otherwise it is handed back and `let _ =` discards it
OneshotSend(ch, v) == IF ch = "open" THEN v ELSE ch

\* Variant of HandshakeReturn that does not look at `accepted`
HandshakeReturnIgnoresRejection(taken, config) ==
    [kind |-> "Ok",
     ack |-> Some([accepted |-> TRUE,
                   auto_approve |->
                       IF taken = None \/ taken[1].auto_approve = <<>>
                       THEN config.auto_approve ELSE taken[1].auto_approve,
                   dangerous_patterns |->
                       IF taken = None \/ taken[1].dangerous_patterns = <<>>
                       THEN config.dangerous_patterns ELSE taken[1].dangerous_patterns,
                   timeout_ms |->
                       IF taken = None \/ taken[1].timeout_ms = 0
                       THEN config.timeout_ms ELSE taken[1].timeout_ms,
                   reason |-> None]),
     msg |-> ""]

\* Variant of HandshakeReturn that returns an accepted ack's fields as they
\* are, without the fallback to the config
HandshakeReturnNoFallback(taken, config) ==
    IF taken = None
    THEN [kind |-> "Ok",
          ack |-> Some([accepted |-> TRUE,
                        auto_approve |-> config.auto_approve,
                        dangerous_patterns |-> config.dangerous_patterns,
                        timeout_ms |-> config.timeout_ms,
                        reason |-> None]),
          msg |-> ""]
    ELSE IF ~taken[1].accepted
    THEN [kind |-> "HandshakeFailed",
          ack |-> None,
          msg |-> IF taken[1].reason = None
                  THEN "Handshake rejected" ELSE taken[1].reason[1]]
    ELSE [kind |-> "Ok",
          ack |-> Some([accepted |-> TRUE,
                        auto_approve |-> taken[1].auto_approve,
                        dangerous_patterns |-> taken[1].dangerous_patterns,
                        timeout_ms |-> taken[1].timeout_ms,
                        reason |-> None]),
          msg |-> ""]

\* Variant of HandshakeReturn that, finding the slot empty, returns an accepted
\* ack with an empty policy instead of the config's
HandshakeReturnEmptyDefault(taken, config) ==
    IF taken = None
    THEN [kind |-> "Ok",
          ack |-> Some([accepted |-> TRUE,
                        auto_approve |-> <<>>,
                        dangerous_patterns |-> <<>>,
                        timeout_ms |-> 0,
                        reason |-> None]),
          msg |-> ""]
    ELSE HandshakeReturnNoFallback(taken, config)

\* handshake(): what the call returns for the value it took out of the slot
HandshakeReturn(taken, config) ==
    IF taken = None
    THEN [kind |-> "Ok",
          ack |-> Some([accepted |-> TRUE,
                        auto_approve |-> config.auto_approve,
                        dangerous_patterns |-> config.dangerous_patterns,
                        timeout_ms |-> config.timeout_ms,
                        reason |-> None]),
          msg |-> ""]
    ELSE LET ack == taken[1] IN
         IF ~ack.accepted
         THEN [kind |-> "HandshakeFailed",
               ack |-> None,
               msg |-> IF ack.reason = None THEN "Handshake rejected" ELSE ack.reason[1]]
         ELSE [kind |-> "Ok",
               ack |-> Some([accepted |-> TRUE,
                             auto_approve |->
                                 IF ack.auto_approve = <<>>
                                 THEN config.auto_approve ELSE ack.auto_approve,
                             dangerous_patterns |->
                                 IF ack.dangerous_patterns = <<>>
                                 THEN config.dangerous_patterns ELSE ack.dangerous_patterns,
                             timeout_ms |->
                                 IF ack.timeout_ms = 0
                                 THEN config.timeout_ms ELSE ack.timeout_ms,
                             reason |-> None]),
               msg |-> ""]

\* Variant of RequestEntry without the cancellation check
RequestEntryNoCancelCheck(isCancelled, hasWriter) ==
    IF ~hasWriter THEN "NotConnected" ELSE "proceed"

\* The send_* family of IpcClient and the type of the frame each one writes
SendOps ==
    [send_status |-> "StatusUpdate", send_task_complete |-> "TaskComplete",
     send_task_error |-> "TaskError", send_log |-> "Log", send_pong |-> "Pong"]

\* Variant of SendEntry that does not look at the writer
SendEntryNoCheck(hasWriter, fails) == IF fails THEN "Io" ELSE "Ok"

\* send_*(): self.writer.as_mut().ok_or(NotConnected)?, then write_all and
\* flush
SendEntry(hasWriter, fails) ==
    IF ~hasWriter THEN "NotConnected"
    ELSE IF fails THEN "Io"
    ELSE "Ok"

\* request_permission(): the checks made before a request id is generated
RequestEntry(isCancelled, hasWriter) ==
    IF isCancelled THEN "Cancelled"
    ELSE IF ~hasWriter THEN "NotConnected"
    ELSE "proceed"

\* Variant of AwaitOutcome whose timer fires after half the bound
AwaitOutcomeEarly(ch, secs) ==
    IF ch \in Results THEN ch
    ELSE IF ch = "dropped" THEN "ChannelClosed"
    ELSE IF secs + secs >= PERMISSION_TIMEOUT_SECS THEN "PermissionTimeout"
    ELSE "wait"

\* request_permission(): tokio::time::timeout(Duration::from_secs(300), rx).
\* The receiver is polled first, the timer second; "wait" means still pending.
AwaitOutcome(ch, secs) ==
    IF ch \in Results THEN ch
    ELSE IF ch = "dropped" THEN "ChannelClosed"
    ELSE IF secs >= PERMISSION_TIMEOUT_SECS THEN "PermissionTimeout"
    ELSE "wait"

\* PermissionResponse arm: pending.remove(&request_id) finds an entry
ResponseFinds(pend, id) == id \in pend

\* Variant of ResponseSlots that resolves the slot without consulting the
\* table, as a lookup that leaves the entry (and its sender) in place would
ResponseSlotsKeepsEntry(pend, sl, id, r) ==
    IF id \in ReqIds
    THEN [sl EXCEPT ![id] = IF @ \in Results \cup {"open"} THEN r ELSE @]
    ELSE sl

\* Variant of ResponseSlots that resolves the slot of a request that is not
\* in the table
ResponseSlotsResolvesUnknown(pend, sl, id, r) ==
    IF id \in ReqIds THEN [sl EXCEPT ![id] = r] ELSE sl

\* PermissionResponse arm: the slots after req.tx.send(result)
ResponseSlots(pend, sl, id, r) ==
    IF ResponseFinds(pend, id)
    THEN [sl EXCEPT ![id] = OneshotSend(@, r)]
    ELSE sl

\* PermissionResponse arm: the table after pending.remove(&request_id)
ResponseTable(pend, id) == pend \ {id}

\* Variant of CancelFlag that flips the flag
CancelFlagToggles(c) == ~c

\* Cancel arm: `*cancelled = true`
CancelFlag(c) == TRUE

\* Variant of DrainSlots that clears the table without sending: the senders
\* are dropped
DrainSlotsClear(pend, sl) ==
    [id \in ReqIds |-> IF id \in pend /\ sl[id] = "open" THEN "dropped" ELSE sl[id]]

\* Variant of DrainSlots that sends Approve
DrainSlotsApprove(pend, sl) ==
    [id \in ReqIds |-> IF id \in pend THEN OneshotSend(sl[id], "Approve") ELSE sl[id]]

\* Cancel arm: the slots after `for (_, req) in pending.drain()`
DrainSlots(pend, sl) ==
    [id \in ReqIds |-> IF id \in pend THEN OneshotSend(sl[id], "Abort") ELSE sl[id]]

\* Cancel arm: the table after pending.drain()
DrainTable(pend) == {}

\* Variant of EofSlots in which the task's end drops the senders of the table
EofSlotsDropsSenders(pend, sl) ==
    [id \in ReqIds |-> IF id \in pend /\ sl[id] = "open" THEN "dropped" ELSE sl[id]]

\* The read loop's `break` on Ok(0) and on Err(e): the task ends and drops its
\* clone of the table's Arc; the client holds the other clone, so the table
\* and the senders in it live on untouched
EofSlots(pend, sl) == sl

(* ------------------------------------------------------------------ *)
(* The worker's caller task                                            *)
(* ------------------------------------------------------------------ *)

\* transport::bind: a file at the path is removed, then the listener is bound
BindEndpoint(e) == "own"

\* Variant of CleanupEndpoint that leaves the file where it is
CleanupEndpointKeeps(e) == e

\* transport::cleanup: a file at the path is removed
CleanupEndpoint(e) == "none"

\* Variant of TakeLeaves that leaves the receiver in the field
TakeLeavesReceiver(rx) == rx

\* take_receiver: Option::take leaves None in the field
TakeLeaves(rx) == FALSE

\* take_receiver: number of receivers the call yields: one for Some(rx), none
\* for None
TakeYields(rx) == IF rx THEN 1 ELSE 0

\* Calls the worker has made, frames the commander has sent unasked and lines
\* the peer of the client's stream has written
LinkEvents == hsCalls + rpCalls + cmdFrames + Len(rawWrote)

\* writer.write_all + flush: fails once the commander's end is closed
WriteFails == peerClosed

\* IpcClient::connect (UnixStream::connect needs a bound listener)
Connect ==
    /\ callerPc = "idle"
    /\ readerPc = "none"
    /\ IF listener
       THEN /\ writer' = TRUE
            /\ cancel_tx' = TRUE
            /\ readerPc' = "idle"
       ELSE UNCHANGED <<writer, cancel_tx, readerPc>>
    /\ UNCHANGED <<pending_permissions, cancelled, handshake_ack, slot>>
    /\ UNCHANGED <<callerVars, cancelSignal, connVars, serverVars, historyVars>>
    /\ UNCHANGED registryVars
    /\ UNCHANGED <<serviceVars, writeVars, outerVars>>

\* IpcClient::handshake, up to writer.flush()
HandshakeSend ==
    /\ callerPc = "idle"
    /\ hsCalls < MaxHandshakes
    /\ LinkEvents < MaxEvents
    /\ hsCalls' = hsCalls + 1
    /\ IF ~writer
       THEN /\ lastRet' = Ret("handshake", "NotConnected")
            /\ UNCHANGED <<callerPc, w2c>>
       ELSE IF WriteFails
       THEN /\ lastRet' = Ret("handshake", "Io")
            /\ UNCHANGED <<callerPc, w2c>>
       ELSE /\ w2c' = Append(w2c, HandshakeMsg)
            /\ callerPc' = "hs_take"
            /\ UNCHANGED lastRet
    /\ UNCHANGED <<clientVars, curId, nextId, waited, rpCalls, rpOutcome>>
    /\ UNCHANGED <<readerVars, c2w, peerClosed, serverVars, historyVars>>
    /\ UNCHANGED registryVars
    /\ UNCHANGED <<serviceVars, writeVars, outerVars>>

\* IpcClient::handshake, from handshake_ack.lock().await.take() to the return
HandshakeTake ==
    /\ callerPc = "hs_take"
    /\ handshake_ack' = None
    /\ LET r == HandshakeReturn(handshake_ack, LocalConfig)
       IN lastRet' = [op |-> "handshake", res |-> r.kind, ack |-> r.ack, msg |-> r.msg]
    /\ callerPc' = "idle"
    /\ UNCHANGED <<writer, pending_permissions, cancelled, cancel_tx, slot>>
    /\ UNCHANGED <<curId, nextId, waited, hsCalls, rpCalls, rpOutcome>>
    /\ UNCHANGED <<readerVars, connVars, serverVars, historyVars>>
    /\ UNCHANGED registryVars
    /\ UNCHANGED <<serviceVars, writeVars, outerVars>>

\* IpcClient::request_permission, up to the generation of the request id.
\* The cancelled mutex is held by the read loop while it handles a Cancel.
RequestStart ==
    /\ callerPc = "idle"
    /\ rpCalls < MaxRequests
    /\ LinkEvents < MaxEvents
    /\ readerPc # "cancel_drain"
    /\ rpCalls' = rpCalls + 1
    /\ IF RequestEntry(cancelled, writer) = "proceed"
       THEN /\ curId' = nextId
            /\ nextId' = nextId + 1
            /\ callerPc' = "rp_insert"
            /\ UNCHANGED lastRet
       ELSE /\ lastRet' = Ret("request_permission", RequestEntry(cancelled, writer))
            /\ UNCHANGED <<curId, nextId, callerPc>>
    /\ UNCHANGED <<clientVars, waited, hsCalls, rpOutcome>>
    /\ UNCHANGED <<readerVars, connVars, serverVars, historyVars>>
    /\ UNCHANGED registryVars
    /\ UNCHANGED <<serviceVars, writeVars, outerVars>>

\* IpcClient::request_permission: oneshot::channel() and pending.insert
RequestInsert ==
    /\ callerPc = "rp_insert"
    /\ pending_permissions' = pending_permissions \cup {curId}
    /\ slot' = [slot EXCEPT ![curId] = "open"]
    /\ callerPc' = "rp_write"
    /\ UNCHANGED <<writer, cancelled, handshake_ack, cancel_tx>>
    /\ UNCHANGED <<curId, nextId, waited, hsCalls, rpCalls, lastRet, rpOutcome>>
    /\ UNCHANGED <<readerVars, connVars, serverVars, historyVars>>
    /\ UNCHANGED registryVars
    /\ UNCHANGED <<serviceVars, writeVars, outerVars>>

\* IpcClient::request_permission: encode, write_all, flush.  On an I/O error
\* the `?` returns and drops the receiver; the table is not touched.
RequestWrite ==
    /\ callerPc = "rp_write"
    /\ IF WriteFails
       THEN /\ rpOutcome' = [rpOutcome EXCEPT ![curId] = "Io"]
            /\ lastRet' = Ret("request_permission", "Io")
            /\ slot' = [slot EXCEPT ![curId] = "closed"]
            /\ callerPc' = "idle"
            /\ UNCHANGED <<w2c, waited>>
       ELSE /\ w2c' = Append(w2c, PermissionRequestMsg(curId))
            /\ waited' = 0
            /\ callerPc' = "rp_wait"
            /\ UNCHANGED <<rpOutcome, lastRet, slot>>
    /\ UNCHANGED <<writer, pending_permissions, cancelled, handshake_ack, cancel_tx>>
    /\ UNCHANGED <<curId, nextId, hsCalls, rpCalls>>
    /\ UNCHANGED <<readerVars, c2w, peerClosed, serverVars, historyVars>>
    /\ UNCHANGED registryVars
    /\ UNCHANGED <<serviceVars, writeVars, outerVars>>

\* IpcClient::request_permission: the timeout(..., rx).await completes.  The
\* receiver is dropped with the call; the table is not touched.
RequestAwait ==
    /\ callerPc = "rp_wait"
    /\ AwaitOutcome(slot[curId], waited) # "wait"
    /\ rpOutcome' = [rpOutcome EXCEPT ![curId] = AwaitOutcome(slot[curId], waited)]
    /\ lastRet' = Ret("request_permission", rpOutcome'[curId])
    /\ slot' = [slot EXCEPT ![curId] = "closed"]
    /\ callerPc' = "idle"
    /\ waited' = 0
    /\ UNCHANGED <<writer, pending_permissions, cancelled, handshake_ack, cancel_tx>>
    /\ UNCHANGED <<curId, nextId, hsCalls, rpCalls>>
    /\ UNCHANGED <<readerVars, connVars, serverVars, historyVars>>
    /\ UNCHANGED registryVars
    /\ UNCHANGED <<serviceVars, writeVars, outerVars>>

\* Time passes while request_permission waits
Tick ==
    /\ callerPc = "rp_wait"
    /\ waited < PERMISSION_TIMEOUT_SECS
    /\ waited' = waited + TickStep
    /\ UNCHANGED <<clientVars, callerPc, curId, nextId, hsCalls, rpCalls>>
    /\ UNCHANGED <<lastRet, rpOutcome>>
    /\ UNCHANGED <<readerVars, connVars, serverVars, historyVars>>
    /\ UNCHANGED registryVars
    /\ UNCHANGED <<serviceVars, writeVars, outerVars>>

\* IpcClient::send_status, send_task_complete, send_task_error, send_log and
\* send_pong
ClientSend(op) ==
    /\ callerPc = "idle"
    /\ Len(w2c) < MaxUnread
    /\ lastRet' = Ret(op, SendEntry(writer, WriteFails))
    /\ w2c' = IF SendEntry(writer, WriteFails) = "Ok"
              THEN Append(w2c, [type |-> SendOps[op]]) ELSE w2c
    /\ UNCHANGED <<clientVars, callerPc, curId, nextId, waited, hsCalls, rpCalls>>
    /\ UNCHANGED <<rpOutcome, readerVars, c2w, peerClosed, serverVars, historyVars>>
    /\ UNCHANGED registryVars
    /\ UNCHANGED <<serviceVars, writeVars, outerVars>>

\* IpcClient::connect after a disconnect() whose signal has stopped the read
\* loop: a new stream, a new write half, a new cancel channel and a new read
\* loop; the pending table, the cancellation flag and the ack slot are the
\* ones made by IpcClient::new
Reconnect ==
    /\ callerPc = "idle"
    /\ ~writer
    /\ readerPc = "stopped"
    /\ listener
    /\ writer' = TRUE
    /\ cancel_tx' = TRUE
    /\ readerPc' = "idle"
    /\ cancelSignal' = FALSE
    /\ w2c' = <<>>
    /\ c2w' = <<>>
    /\ reconnectFlag' = IF cancelled THEN "set" ELSE "clear"
    /\ UNCHANGED <<pending_permissions, cancelled, handshake_ack, slot>>
    /\ UNCHANGED <<callerVars, peerClosed, serverVars>>
    /\ UNCHANGED <<acksSent, lateResp, lastDrained>>
    /\ UNCHANGED registryVars
    /\ UNCHANGED <<serviceVars, writeVars, outerVars>>

\* IpcClient::disconnect
Disconnect ==
    /\ callerPc = "idle"
    /\ writer
    /\ cancel_tx' = FALSE
    /\ cancelSignal' = (cancel_tx /\ readerPc # "stopped")
    /\ writer' = FALSE
    /\ UNCHANGED <<pending_permissions, cancelled, handshake_ack, slot>>
    /\ UNCHANGED <<callerVars, readerPc, connVars, serverVars, historyVars>>
    /\ UNCHANGED registryVars
    /\ UNCHANGED <<serviceVars, writeVars, outerVars>>

(* ------------------------------------------------------------------ *)
(* The client's read loop                                              *)
(* ------------------------------------------------------------------ *)

\* handle_commander_message, HandshakeAck arm
HandleHandshakeAck(msg) ==
    /\ handshake_ack' = Some(msg.ack)
    /\ UNCHANGED <<pending_permissions, cancelled, slot, readerPc>>
    /\ UNCHANGED <<lateResp, lastDrained, reconnectFlag>>

\* handle_commander_message, PermissionResponse arm
HandlePermissionResponse(msg) ==
    /\ pending_permissions' = ResponseTable(pending_permissions, msg.request_id)
    /\ slot' = ResponseSlots(pending_permissions, slot, msg.request_id, msg.result)
    /\ lateResp' = IF msg.request_id \in ReqIds
                      /\ slot[msg.request_id] \in Results \cup {"closed"}
                   THEN lateResp \cup {msg.request_id} ELSE lateResp
    /\ UNCHANGED <<cancelled, handshake_ack, readerPc, lastDrained, reconnectFlag>>

\* handle_commander_message, Cancel arm up to `*cancelled = true`; the guard
\* of the cancelled mutex lives to the end of the arm
HandleCancelFlag ==
    /\ cancelled' = CancelFlag(cancelled)
    /\ readerPc' = "cancel_drain"
    /\ UNCHANGED <<pending_permissions, handshake_ack, slot>>
    /\ UNCHANGED <<lateResp, lastDrained, reconnectFlag>>

\* handle_commander_message, Ping arm and `_` arm
HandleOther ==
    /\ UNCHANGED <<pending_permissions, cancelled, handshake_ack, slot, readerPc>>
    /\ UNCHANGED <<lateResp, lastDrained, reconnectFlag>>

\* The read loop: read_line returned a line
ReaderHandle ==
    /\ readerPc = "idle"
    /\ c2w # <<>>
    /\ c2w' = Tail(c2w)
    /\ LET msg == Head(c2w) IN
       CASE msg.type = "HandshakeAck" -> HandleHandshakeAck(msg)
         [] msg.type = "PermissionResponse" -> HandlePermissionResponse(msg)
         [] msg.type = "Cancel" -> HandleCancelFlag
         [] OTHER -> HandleOther
    /\ UNCHANGED <<writer, cancel_tx, callerVars, cancelSignal, w2c, peerClosed>>
    /\ UNCHANGED <<serverVars, acksSent>>
    /\ UNCHANGED registryVars
    /\ UNCHANGED <<serviceVars, writeVars, outerVars>>

\* handle_commander_message, Cancel arm from pending.lock() to the end
ReaderCancelDrain ==
    /\ readerPc = "cancel_drain"
    /\ slot' = DrainSlots(pending_permissions, slot)
    /\ pending_permissions' = DrainTable(pending_permissions)
    /\ lastDrained' = pending_permissions
    /\ readerPc' = "idle"
    /\ UNCHANGED <<writer, cancelled, handshake_ack, cancel_tx>>
    /\ UNCHANGED <<callerVars, cancelSignal, connVars, serverVars, acksSent, lateResp>>
    /\ UNCHANGED reconnectFlag
    /\ UNCHANGED registryVars
    /\ UNCHANGED <<serviceVars, writeVars, outerVars>>

\* The read loop: read_line returned Ok(0) ("Commander disconnected") or
\* Err(e) ("Error reading from commander"); both arms only break
ReaderEof ==
    /\ readerPc = "idle"
    /\ c2w = <<>>
    /\ peerClosed
    /\ readerPc' = "stopped"
    /\ slot' = EofSlots(pending_permissions, slot)
    /\ UNCHANGED <<writer, pending_permissions, cancelled, handshake_ack, cancel_tx>>
    /\ UNCHANGED <<callerVars, cancelSignal, connVars, serverVars, historyVars>>
    /\ UNCHANGED registryVars
    /\ UNCHANGED <<serviceVars, writeVars, outerVars>>

\* The read loop: cancel_rx.recv() won the select! ("Client cancelled")
ReaderCancelled ==
    /\ readerPc = "idle"
    /\ cancelSignal
    /\ readerPc' = "stopped"
    /\ cancelSignal' = FALSE
    /\ UNCHANGED <<clientVars, callerVars, connVars, serverVars, historyVars>>
    /\ UNCHANGED registryVars
    /\ UNCHANGED <<serviceVars, writeVars, outerVars>>

(* ------------------------------------------------------------------ *)
(* The commander: IpcServer and the orchestration task                 *)
(* ------------------------------------------------------------------ *)

\* Both halves of the client's stream are dropped
ClientClosed == readerPc = "stopped" /\ ~writer

\* IpcServer::start
ServerStart ==
    /\ ~exited
    /\ ~dropped
    /\ ~listener
    /\ listener' = TRUE
    /\ endpoint' = BindEndpoint(endpoint)
    /\ started' = TRUE
    /\ UNCHANGED <<incoming_rx, receivers, dropped>>
    /\ UNCHANGED <<writeVars, outerVars>>
    /\ UNCHANGED <<clientVars, callerVars, readerVars, connVars, historyVars>>
    /\ UNCHANGED <<workers, incoming, srvConn, cmdFrames, knownIds, exited>>
    /\ UNCHANGED registryVars

\* IpcServer::accept: the first line of the connection must be a Handshake
ServerAccept ==
    /\ ~exited
    /\ listener
    /\ readerPc # "none"
    /\ srvConn = "none"
    /\ w2c # <<>> \/ ClientClosed
    /\ IF w2c # <<>> /\ Head(w2c).type = "Handshake"
       THEN /\ workers' = workers \cup {Head(w2c).worker_id}
            /\ incoming' = Append(incoming, <<Head(w2c).worker_id, Head(w2c)>>)
            /\ srvConn' = "reading"
            /\ UNCHANGED peerClosed
       ELSE /\ srvConn' = "rejected"
            /\ peerClosed' = TRUE
            /\ UNCHANGED <<workers, incoming>>
    /\ w2c' = IF w2c # <<>> THEN Tail(w2c) ELSE w2c
    /\ UNCHANGED <<clientVars, callerVars, readerVars, c2w, historyVars>>
    /\ UNCHANGED <<listener, cmdFrames, knownIds, exited>>
    /\ UNCHANGED registryVars
    /\ UNCHANGED <<serviceVars, writeVars, outerVars>>

\* IpcServer::read_worker_messages: one frame read and published
ServerRead ==
    /\ ~exited
    /\ srvConn = "reading"
    /\ w2c # <<>>
    /\ incoming' = Append(incoming, <<WorkerId, Head(w2c)>>)
    /\ w2c' = Tail(w2c)
    /\ UNCHANGED <<clientVars, callerVars, readerVars, c2w, peerClosed, historyVars>>
    /\ UNCHANGED <<listener, workers, srvConn, cmdFrames, knownIds, exited>>
    /\ UNCHANGED registryVars
    /\ UNCHANGED <<serviceVars, writeVars, outerVars>>

\* IpcServer::read_worker_messages: EOF, the worker is removed from the map
ServerReadEof ==
    /\ ~exited
    /\ srvConn = "reading"
    /\ w2c = <<>>
    /\ ClientClosed
    /\ workers' = workers \ {WorkerId}
    /\ srvConn' = "ended"
    /\ peerClosed' = TRUE
    /\ UNCHANGED <<clientVars, callerVars, readerVars, w2c, c2w, historyVars>>
    /\ UNCHANGED <<listener, incoming, cmdFrames, knownIds, exited>>
    /\ UNCHANGED registryVars
    /\ UNCHANGED <<serviceVars, writeVars, outerVars>>

\* IpcServer::send: the frame is written iff the worker is in the registry
SendWrites(wid) == wid \in workers

\* The orchestration task takes a message from the delivery channel; a
\* Handshake it may answer with IpcServer::send(worker_id, handshake_ack(..)),
\* the ack being one of `answers`
CommanderRecv(answers) ==
    /\ ~exited
    /\ incoming # <<>>
    /\ incoming' = Tail(incoming)
    /\ LET wid == Head(incoming)[1]
           msg == Head(incoming)[2]
       IN IF msg.type = "Handshake"
          THEN \E answer \in {None} \cup {Some(a) : a \in answers} :
                  IF answer # None /\ SendWrites(wid)
                  THEN /\ c2w' = Append(c2w, HandshakeAckMsg(answer[1]))
                       /\ acksSent' = acksSent \cup {answer[1]}
                  ELSE UNCHANGED <<c2w, acksSent>>
          ELSE UNCHANGED <<c2w, acksSent>>
    /\ knownIds' = IF Head(incoming)[2].type = "PermissionRequest"
                   THEN knownIds \cup {Head(incoming)[2].request_id} ELSE knownIds
    /\ UNCHANGED <<clientVars, callerVars, readerVars, w2c, peerClosed>>
    /\ UNCHANGED <<listener, workers, srvConn, cmdFrames, exited>>
    /\ UNCHANGED <<lateResp, lastDrained, reconnectFlag>>
    /\ UNCHANGED registryVars
    /\ UNCHANGED <<serviceVars, writeVars, outerVars>>

\* The orchestration task sends a PermissionResponse, a Cancel or a Ping with
\* IpcServer::send
CommanderSend ==
    /\ ~exited
    /\ cmdFrames < MaxCmdFrames
    /\ LinkEvents < MaxEvents
    /\ SendWrites(WorkerId)
    /\ \E msg \in UnsolicitedMsgs(knownIds) : c2w' = Append(c2w, msg)
    /\ cmdFrames' = cmdFrames + 1
    /\ UNCHANGED <<clientVars, callerVars, readerVars, w2c, peerClosed, historyVars>>
    /\ UNCHANGED <<listener, workers, incoming, srvConn, knownIds, exited>>
    /\ UNCHANGED registryVars
    /\ UNCHANGED <<serviceVars, writeVars, outerVars>>

\* The commander process ends: its end of every stream is closed
CommanderExit ==
    /\ ~exited
    /\ exited' = TRUE
    /\ peerClosed' = TRUE
    /\ listener' = FALSE
    /\ workers' = {}
    /\ UNCHANGED <<clientVars, callerVars, readerVars, w2c, c2w, historyVars>>
    /\ UNCHANGED <<incoming, srvConn, cmdFrames, knownIds>>
    /\ UNCHANGED registryVars
    /\ endpoint' = CleanupEndpoint(endpoint)
    /\ UNCHANGED <<incoming_rx, receivers, dropped, started>>
    /\ UNCHANGED <<writeVars, outerVars>>

(* ------------------------------------------------------------------ *)
(* IpcServer with several connections: pure parts                      *)
(* ------------------------------------------------------------------ *)

\* decode::<WorkerMessage>(&line) is Ok
Decodes(line) == line.type \notin {"Garbage", "Eof"}

\* Variant of AcceptOutcome with one error for every first line that is not a
\* Handshake
AcceptOutcomeOneError(line) ==
    IF Decodes(line) /\ line.type = "Handshake" THEN "Ok" ELSE "InvalidHandshake"

\* accept(): what becomes of a connection whose first line is `line`
AcceptOutcome(line) ==
    IF ~Decodes(line) THEN "InvalidMessage"
    ELSE IF line.type = "Handshake" THEN "Ok"
    ELSE "InvalidHandshake"

\* Variant of AcceptEntry that does not look at the listener
AcceptEntryNoCheck(hasListener) == "Proceed"

\* accept(): self.listener.as_ref().ok_or(IpcError::NotStarted)?
AcceptEntry(hasListener) == IF hasListener THEN "Proceed" ELSE "NotStarted"

\* accept(): workers.insert(worker_id, ..) overwrites an entry with that id
Register(reg, wid, c) == [reg EXCEPT ![wid] = c]

\* Variant of ReaderEndRegistry that leaves the map as it is
ReaderEndKeeps(reg, wid) == reg

\* read_worker_messages: workers.remove(&worker_id) after the loop
ReaderEndRegistry(reg, wid) == [reg EXCEPT ![wid] = NoConn]

\* Variant of DisconnectRegistry that empties the map
DisconnectRegistryClears(reg, wid) == [w \in WorkerIds |-> NoConn]

\* disconnect(): workers.remove(worker_id)
DisconnectRegistry(reg, wid) == [reg EXCEPT ![wid] = NoConn]

\* stop(): workers.clear()
StopRegistry(reg) == [w \in WorkerIds |-> NoConn]

\* Variant of Publish that puts the message at the front of the channel
PublishFront(chan, wid, line) == <<<<wid, line>>>> \o chan

\* incoming_tx.send((worker_id, msg))
Publish(chan, wid, line) == Append(chan, <<wid, line>>)

\* read_worker_messages: a line that decodes is published, another is skipped
ReadPublishes(chan, wid, line) ==
    IF Decodes(line) THEN Publish(chan, wid, line) ELSE chan

\* Variant of ReadContinues in which a decode error ends the read loop
ReadStopsOnDecodeError(line) == Decodes(line)

\* read_worker_messages: after a line was read the loop goes on, whether the
\* line decoded or not
ReadContinues(line) == TRUE

\* Variant of SendOutcome that does not report a missing worker
SendOutcomeIgnoresMissing(reg, open, wid) ==
    IF reg[wid] # NoConn /\ ~open[reg[wid]] THEN "Io" ELSE "Ok"

\* send(): the lookup, then write_all and flush on the stored write half
SendOutcome(reg, open, wid) ==
    IF reg[wid] = NoConn THEN "WorkerNotConnected"
    ELSE IF ~open[reg[wid]] THEN "Io"
    ELSE "Ok"

\* send(): frames written to each connection after the call
SendWritten(reg, open, out, wid) ==
    IF SendOutcome(reg, open, wid) = "Ok"
    THEN [out EXCEPT ![reg[wid]] = @ + 1]
    ELSE out

\* Variant of SendRegistry that removes the worker when the write fails
SendRegistryRemovesOnFailure(reg, wid, outcome) ==
    IF outcome = "Io" THEN [reg EXCEPT ![wid] = NoConn] ELSE reg

\* send(): the registry after the call; no branch of send touches it
SendRegistry(reg, wid, outcome) == reg

\* Variant of BroadcastWritten that gives up at the first failed write
BroadcastWrittenStopsAtFailure(reg, open, out) ==
    IF \E w \in WorkerIds : reg[w] # NoConn /\ ~open[reg[w]]
    THEN out
    ELSE [c \in Conns |->
            IF \E w \in WorkerIds : reg[w] = c THEN out[c] + 1 ELSE out[c]]

\* broadcast(): frames written to each connection after the call; a failed
\* write is logged and the loop goes on
BroadcastWritten(reg, open, out) ==
    [c \in Conns |->
        IF open[c] /\ \E w \in WorkerIds : reg[w] = c THEN out[c] + 1 ELSE out[c]]

\* broadcast(): the registry after the call
BroadcastRegistry(reg, open) == reg

\* is_connected()
IsConnected(reg, wid) == reg[wid] # NoConn

\* connected_workers()
ConnectedWorkers(reg) == {w \in WorkerIds : reg[w] # NoConn}

RECURSIVE LinesUpTo(_, _)
\* Lines written on connections 1..n
LinesUpTo(w, n) == IF n = 0 THEN 0 ELSE Len(w[n]) + LinesUpTo(w, n - 1)

\* Lines written so far by all peers
TotalLines == LinesUpTo(wrote, MaxConns) + Len(rawWrote)

\* send() and broadcast() calls of the write model made so far
WriteCalls == Cardinality({t \in Tasks : wtask[t].pc # "idle"})

\* A send() or broadcast() in progress holds the read guard of the workers map
ReadLocked == \E t \in Tasks : wtask[t].pc \in {"lock", "write"}

\* Connections made, lines written and calls made so far
TotalSteps ==
    Cardinality({c \in Conns : conn[c] # "idle"}) + TotalLines + srvCalls + WriteCalls

\* Variant of LockFree that lets a second caller in
LockFreeAlways(holder) == TRUE

\* worker.lock().await returns once no other guard of the mutex is alive
LockFree(holder) == holder = NoTask

\* The guard is dropped at the end of send() or of the loop body
Unlock(locks, c) == [locks EXCEPT ![c] = NoTask]

\* broadcast(): the connections workers.iter() yields
BroadcastTargets(reg) == {reg[w] : w \in {x \in WorkerIds : reg[x] # NoConn}}

\* The call after the write on its current connection: broadcast() goes on
\* to the next entry of the map in whatever order the iterator has, send()
\* returns res, broadcast() returns Ok
Advance(tk, res) ==
    IF tk.op = "broadcast" /\ tk.todo # {}
    THEN {[tk EXCEPT !.pc = "lock", !.conn = c, !.todo = tk.todo \ {c}, !.off = 0] :
             c \in tk.todo}
    ELSE {[IdleTask EXCEPT !.op = tk.op, !.pc = "done",
                          !.res = IF tk.op = "broadcast" THEN "Ok" ELSE res]}

(* ------------------------------------------------------------------ *)
(* IpcServer with several connections: peers and server tasks          *)
(* ------------------------------------------------------------------ *)

\* A peer connects to the bound listener (transport::connect)
PeerConnect(c) ==
    /\ listener
    /\ conn[c] = "idle"
    /\ TotalSteps < MaxSteps
    /\ IF c = 1 THEN TRUE ELSE conn[c - 1] # "idle"
    /\ conn' = [conn EXCEPT ![c] = "queued"]
    /\ peerOpen' = [peerOpen EXCEPT ![c] = TRUE]
    /\ UNCHANGED <<registry, inbuf, connWid, delivery, wrote, sent, lastCall>>
    /\ UNCHANGED <<srvCalls, evicted, rawWrote>>
    /\ UNCHANGED linkVars
    /\ UNCHANGED <<serviceVars, writeVars, outerVars>>

\* A peer writes one line on its connection
PeerWrite(c) ==
    /\ conn[c] \in {"queued", "registered", "reading"}
    /\ peerOpen[c]
    /\ TotalLines < MaxLines
    /\ TotalSteps < MaxSteps
    /\ \E line \in (IF wrote[c] = <<>>
                    THEN FirstLines(c) ELSE LaterLines(c, Len(wrote[c]) + 1)) :
          /\ inbuf' = [inbuf EXCEPT ![c] = Append(@, line)]
          /\ wrote' = [wrote EXCEPT ![c] = Append(@, line)]
    /\ UNCHANGED <<registry, conn, peerOpen, connWid, delivery, sent, lastCall>>
    /\ UNCHANGED <<srvCalls, evicted, rawWrote>>
    /\ UNCHANGED linkVars
    /\ UNCHANGED <<serviceVars, writeVars, outerVars>>

\* A peer closes its end of the connection
PeerClose(c) ==
    /\ conn[c] \in {"queued", "registered", "reading"}
    /\ peerOpen[c]
    /\ peerOpen' = [peerOpen EXCEPT ![c] = FALSE]
    /\ UNCHANGED <<registry, conn, inbuf, connWid, delivery, wrote, sent, lastCall>>
    /\ UNCHANGED <<srvCalls, evicted, rawWrote>>
    /\ UNCHANGED linkVars
    /\ UNCHANGED <<serviceVars, writeVars, outerVars>>

\* IpcServer::accept without a listener
SrvAcceptNotStarted ==
    /\ ~dropped
    /\ AcceptEntry(listener) = "NotStarted"
    /\ lastCall' = Call("accept", "", NoConn, AcceptEntry(listener))
    /\ UNCHANGED <<registry, conn, inbuf, peerOpen, connWid, delivery, wrote, sent>>
    /\ UNCHANGED <<srvCalls, evicted, rawWrote>>
    /\ UNCHANGED linkVars
    /\ UNCHANGED <<serviceVars, writeVars, outerVars>>

\* IpcServer::accept: listener.accept(), read_line, decode, and for a
\* Handshake workers.insert; for anything else the error return, which drops
\* both halves of the stream
SrvAcceptRead(c) ==
    /\ ~dropped
    /\ AcceptEntry(listener) = "Proceed"
    /\ conn[c] = "queued"
    /\ inbuf[c] # <<>> \/ ~peerOpen[c]
    /\ LET line == IF inbuf[c] # <<>> THEN Head(inbuf[c]) ELSE EofLine
       IN IF AcceptOutcome(line) = "Ok"
          THEN /\ ~ReadLocked
               /\ registry' = Register(registry, line.worker_id, c)
               /\ connWid' = [connWid EXCEPT ![c] = line.worker_id]
               /\ conn' = [conn EXCEPT ![c] = "registered"]
               /\ UNCHANGED <<inbuf, lastCall>>
          ELSE /\ conn' = [conn EXCEPT ![c] = "rejected"]
               /\ inbuf' = [inbuf EXCEPT ![c] = <<>>]
               /\ lastCall' = Call("accept", "", c, AcceptOutcome(line))
               /\ UNCHANGED <<registry, connWid>>
    /\ UNCHANGED <<peerOpen, delivery, wrote, sent, srvCalls, evicted, rawWrote>>
    /\ UNCHANGED linkVars
    /\ UNCHANGED <<serviceVars, writeVars, outerVars>>

\* IpcServer::accept: the Handshake is published, the read loop is spawned
\* and the worker id is returned
SrvAcceptPublish(c) ==
    /\ conn[c] = "registered"
    /\ delivery' = Publish(delivery, connWid[c], Head(inbuf[c]))
    /\ inbuf' = [inbuf EXCEPT ![c] = Tail(@)]
    /\ conn' = [conn EXCEPT ![c] = "reading"]
    /\ lastCall' = Call("accept", connWid[c], c, "Ok")
    /\ UNCHANGED <<registry, peerOpen, connWid, wrote, sent, srvCalls, evicted, rawWrote>>
    /\ UNCHANGED linkVars
    /\ UNCHANGED <<serviceVars, writeVars, outerVars>>

\* read_worker_messages: read_line returned a line
SrvRead(c) ==
    /\ conn[c] = "reading"
    /\ inbuf[c] # <<>>
    /\ delivery' = ReadPublishes(delivery, connWid[c], Head(inbuf[c]))
    /\ inbuf' = [inbuf EXCEPT ![c] = Tail(@)]
    /\ conn' = IF ReadContinues(Head(inbuf[c]))
               THEN conn ELSE [conn EXCEPT ![c] = "ended"]
    /\ UNCHANGED <<registry, peerOpen, connWid, wrote, sent, lastCall>>
    /\ UNCHANGED <<srvCalls, evicted, rawWrote>>
    /\ UNCHANGED linkVars
    /\ UNCHANGED <<serviceVars, writeVars, outerVars>>

\* read_worker_messages: read_line returned Ok(0); the loop ends and the
\* worker id is removed from the map
SrvReadEof(c) ==
    /\ conn[c] = "reading"
    /\ ~ReadLocked
    /\ inbuf[c] = <<>>
    /\ ~peerOpen[c]
    /\ registry' = ReaderEndRegistry(registry, connWid[c])
    /\ evicted' = IF registry[connWid[c]] # NoConn /\ registry' # registry
                  THEN evicted \cup {<<c, registry[connWid[c]]>>} ELSE evicted
    /\ conn' = [conn EXCEPT ![c] = "ended"]
    /\ UNCHANGED <<inbuf, peerOpen, connWid, delivery, wrote, sent, lastCall>>
    /\ UNCHANGED <<srvCalls, rawWrote>>
    /\ UNCHANGED linkVars
    /\ UNCHANGED <<serviceVars, writeVars, outerVars>>

\* IpcServer::send
SrvSend(w) ==
    /\ ~dropped
    /\ srvCalls < MaxSrvCalls
    /\ TotalSteps < MaxSteps
    /\ srvCalls' = srvCalls + 1
    /\ sent' = SendWritten(registry, peerOpen, sent, w)
    /\ registry' = SendRegistry(registry, w, SendOutcome(registry, peerOpen, w))
    /\ lastCall' = Call("send", w, registry[w], SendOutcome(registry, peerOpen, w))
    /\ UNCHANGED <<conn, inbuf, peerOpen, connWid, delivery, wrote, evicted, rawWrote>>
    /\ UNCHANGED linkVars
    /\ UNCHANGED <<serviceVars, writeVars, outerVars>>

\* IpcServer::broadcast
SrvBroadcast ==
    /\ ~dropped
    /\ srvCalls < MaxSrvCalls
    /\ TotalSteps < MaxSteps
    /\ srvCalls' = srvCalls + 1
    /\ sent' = BroadcastWritten(registry, peerOpen, sent)
    /\ registry' = BroadcastRegistry(registry, peerOpen)
    /\ lastCall' = Call("broadcast", "", NoConn, "Ok")
    /\ UNCHANGED <<conn, inbuf, peerOpen, connWid, delivery, wrote, evicted, rawWrote>>
    /\ UNCHANGED linkVars
    /\ UNCHANGED <<serviceVars, writeVars, outerVars>>

\* IpcServer::disconnect
SrvDisconnect(w) ==
    /\ ~dropped
    /\ ~ReadLocked
    /\ srvCalls < MaxSrvCalls
    /\ TotalSteps < MaxSteps
    /\ srvCalls' = srvCalls + 1
    /\ registry' = DisconnectRegistry(registry, w)
    /\ lastCall' = Call("disconnect", w, registry[w], "Ok")
    /\ UNCHANGED <<conn, inbuf, peerOpen, connWid, delivery, wrote, sent>>
    /\ UNCHANGED <<evicted, rawWrote>>
    /\ UNCHANGED linkVars
    /\ UNCHANGED <<serviceVars, writeVars, outerVars>>

\* IpcServer::stop; it takes &mut self, so no accept() is in progress
SrvStop ==
    /\ ~dropped
    /\ ~ReadLocked
    /\ \A c \in Conns : conn[c] # "registered"
    /\ endpoint' = CleanupEndpoint(endpoint)
    /\ UNCHANGED <<incoming_rx, receivers, dropped, started>>
    /\ UNCHANGED <<writeVars, outerVars>>
    /\ srvCalls < MaxSrvCalls
    /\ TotalSteps < MaxSteps
    /\ srvCalls' = srvCalls + 1
    /\ registry' = StopRegistry(registry)
    /\ listener' = FALSE
    /\ lastCall' = Call("stop", "", NoConn, "Ok")
    /\ UNCHANGED <<conn, inbuf, peerOpen, connWid, delivery, wrote, sent>>
    /\ UNCHANGED <<evicted, rawWrote>>
    /\ UNCHANGED <<clientVars, callerVars, readerVars, connVars, historyVars>>
    /\ UNCHANGED <<workers, incoming, srvConn, cmdFrames, knownIds, exited>>

\* Another process makes a file at socket_path, or binds a listener to it
OtherBinds ==
    /\ endpoint = "none"
    /\ endpoint' \in {"foreign", "live"}
    /\ UNCHANGED <<incoming_rx, receivers, dropped, started>>
    /\ UNCHANGED <<writeVars, outerVars>>
    /\ UNCHANGED linkVars
    /\ UNCHANGED registryVars

\* IpcServer::take_receiver
SrvTakeReceiver ==
    /\ ~dropped
    /\ incoming_rx' = TakeLeaves(incoming_rx)
    /\ receivers' = receivers + TakeYields(incoming_rx)
    /\ lastCall' = Call("take_receiver", "", NoConn,
                        IF TakeYields(incoming_rx) = 1 THEN "Some" ELSE "None")
    /\ UNCHANGED <<registry, conn, inbuf, peerOpen, connWid, delivery, wrote, sent>>
    /\ UNCHANGED <<srvCalls, evicted, rawWrote>>
    /\ UNCHANGED <<endpoint, dropped, started>>
    /\ UNCHANGED <<writeVars, outerVars>>
    /\ UNCHANGED linkVars

\* Drop for IpcServer: the cleanup, then the fields are dropped
SrvDrop ==
    /\ ~dropped
    /\ ~ReadLocked
    /\ \A c \in Conns : conn[c] # "registered"
    /\ dropped' = TRUE
    /\ endpoint' = CleanupEndpoint(endpoint)
    /\ listener' = FALSE
    /\ incoming_rx' = FALSE
    /\ lastCall' = Call("drop", "", NoConn, "Ok")
    /\ UNCHANGED <<registry, conn, inbuf, peerOpen, connWid, delivery, wrote, sent>>
    /\ UNCHANGED <<srvCalls, evicted, rawWrote, receivers, started>>
    /\ UNCHANGED <<writeVars, outerVars>>
    /\ UNCHANGED <<clientVars, callerVars, readerVars, connVars, historyVars>>
    /\ UNCHANGED <<workers, incoming, srvConn, cmdFrames, knownIds, exited>>

(* ------------------------------------------------------------------ *)
(* send() and broadcast() as concurrent calls, one poll_write at a time *)
(* ------------------------------------------------------------------ *)

\* IpcServer::send up to worker.lock(): workers.read(), get(worker_id)
WrSend(t, w) ==
    /\ ~dropped
    /\ wtask[t].pc = "idle"
    /\ IF t = 1 THEN TRUE ELSE wtask[t - 1].pc # "idle"
    /\ TotalSteps < MaxSteps
    /\ wtask' = [wtask EXCEPT ![t] =
                    IF registry[w] = NoConn
                    THEN [IdleTask EXCEPT !.op = "send", !.pc = "done",
                                         !.res = "WorkerNotConnected"]
                    ELSE [IdleTask EXCEPT !.op = "send", !.pc = "lock",
                                         !.conn = registry[w]]]
    /\ UNCHANGED <<wlock, wire>>
    /\ UNCHANGED <<linkVars, registryVars, serviceVars, outerVars>>

\* IpcServer::broadcast up to the first worker.lock(): workers.read() and
\* the first entry of workers.iter()
WrBroadcast(t) ==
    /\ ~dropped
    /\ wtask[t].pc = "idle"
    /\ IF t = 1 THEN TRUE ELSE wtask[t - 1].pc # "idle"
    /\ TotalSteps < MaxSteps
    /\ \E tk \in Advance([IdleTask EXCEPT !.op = "broadcast",
                                          !.todo = BroadcastTargets(registry)], "Ok") :
          wtask' = [wtask EXCEPT ![t] = tk]
    /\ UNCHANGED <<wlock, wire>>
    /\ UNCHANGED <<linkVars, registryVars, serviceVars, outerVars>>

\* worker.lock().await in send() and in broadcast()
WrLock(t) ==
    /\ wtask[t].pc = "lock"
    /\ LockFree(wlock[wtask[t].conn])
    /\ wlock' = [wlock EXCEPT ![wtask[t].conn] = t]
    /\ wtask' = [wtask EXCEPT ![t].pc = "write"]
    /\ UNCHANGED wire
    /\ UNCHANGED <<linkVars, registryVars, serviceVars, outerVars>>

\* One poll_write of write_all; after the last one (and send()'s flush) the
\* guard is dropped
WrChunk(t) ==
    /\ wtask[t].pc = "write"
    /\ peerOpen[wtask[t].conn]
    /\ wire' = [wire EXCEPT ![wtask[t].conn] = Append(@, <<t, wtask[t].off + 1>>)]
    /\ IF wtask[t].off + 1 < FrameChunks
       THEN /\ wtask' = [wtask EXCEPT ![t].off = @ + 1]
            /\ UNCHANGED wlock
       ELSE /\ wlock' = Unlock(wlock, wtask[t].conn)
            /\ \E tk \in Advance(wtask[t], "Ok") : wtask' = [wtask EXCEPT ![t] = tk]
    /\ UNCHANGED <<linkVars, registryVars, serviceVars, outerVars>>

\* write_all fails on a closed stream: send() returns the error, broadcast()
\* logs it and goes on; the guard is dropped
WrFail(t) ==
    /\ wtask[t].pc = "write"
    /\ ~peerOpen[wtask[t].conn]
    /\ wlock' = Unlock(wlock, wtask[t].conn)
    /\ \E tk \in Advance(wtask[t], "Io") : wtask' = [wtask EXCEPT ![t] = tk]
    /\ UNCHANGED wire
    /\ UNCHANGED <<linkVars, registryVars, serviceVars, outerVars>>

(* ------------------------------------------------------------------ *)
(* protocol::encode and protocol::decode                               *)
(* ------------------------------------------------------------------ *)

\* Tags of the worker-to-commander vocabulary
WorkerTags ==
    {"handshake", "permission_request", "status_update", "task_complete",
     "task_error", "log", "pong"}

\* Tags of the commander-to-worker vocabulary
CommanderTags ==
    {"handshake_ack", "permission_response", "inject_context", "cancel", "ping"}

\* Characters of a string value: a letter, the letter n, a raw newline, a
\* backslash and a double quote
Chars == {"a", "n", "NL", "BS", "QT"}

RECURSIVE StringsUpTo(_)
\* Strings of at most n characters
StringsUpTo(n) ==
    IF n = 0 THEN {<<>>}
    ELSE StringsUpTo(n - 1) \cup
         {Append(s, c) : s \in {x \in StringsUpTo(n - 1) : Len(x) = n - 1}, c \in Chars}

\* The messages of one vocabulary
Messages(tags) ==
    {Message(t, s, r) : t \in tags, s \in StringsUpTo(MaxStrLen), r \in Results \cup {"none"}}
    \ {m \in [type : tags, text : StringsUpTo(MaxStrLen), result : Results \cup {"none"}] :
          (m.type = "permission_response") = (m.result = "none")}

\* Variant of EscapeChar that writes every character as it is
EscapeCharRaw(c) == <<c>>

\* JSON string escaping of one character
EscapeChar(c) ==
    CASE c = "NL" -> <<"BS", "n">>
      [] c = "BS" -> <<"BS", "BS">>
      [] c = "QT" -> <<"BS", "QT">>
      [] OTHER -> <<c>>

RECURSIVE EscapeStr(_)
\* JSON string escaping of a string
EscapeStr(s) == IF s = <<>> THEN <<>> ELSE EscapeChar(Head(s)) \o EscapeStr(Tail(s))

\* encode: a single-line JSON object, then exactly one newline
Encode(m) ==
    <<"{", m.type, "QT">> \o EscapeStr(m.text) \o <<"QT">>
        \o (IF m.type = "permission_response" THEN <<m.result>> ELSE <<>>)
        \o <<"}", "NL">>

RECURSIVE ParseStr(_, _)
\* The JSON string that starts at t, up to its closing quote: a raw newline
\* and an unknown escape are errors
ParseStr(t, acc) ==
    IF t = <<>> \/ Head(t) = "NL" THEN [ok |-> FALSE, str |-> <<>>, rest |-> <<>>]
    ELSE IF Head(t) = "QT" THEN [ok |-> TRUE, str |-> acc, rest |-> Tail(t)]
    ELSE IF Head(t) = "BS"
         THEN IF Len(t) >= 2 /\ t[2] \in {"n", "BS", "QT"}
              THEN ParseStr(SubSeq(t, 3, Len(t)),
                            Append(acc, IF t[2] = "n" THEN "NL" ELSE t[2]))
              ELSE [ok |-> FALSE, str |-> <<>>, rest |-> <<>>]
    ELSE ParseStr(Tail(t), Append(acc, Head(t)))

\* decode::<T>: the line with or without its newline; an unknown tag and a
\* missing field are errors
Decode(tags, line) ==
    LET body == IF line # <<>> /\ line[Len(line)] = "NL"
                THEN SubSeq(line, 1, Len(line) - 1) ELSE line
    IN IF Len(body) < 3 THEN DecodeError
       ELSE IF body[1] # "{" \/ body[2] \notin tags \/ body[3] # "QT" THEN DecodeError
       ELSE LET p == ParseStr(SubSeq(body, 4, Len(body)), <<>>)
            IN IF ~p.ok THEN DecodeError
               ELSE IF body[2] = "permission_response"
                    THEN IF Len(p.rest) = 2 /\ p.rest[1] \in Results /\ p.rest[2] = "}"
                         THEN Message(body[2], p.str, p.rest[1]) ELSE DecodeError
               ELSE IF p.rest = <<"}">> THEN Message(body[2], p.str, "none")
               ELSE DecodeError

\* The vocabulary a message belongs to
VocabularyOf(m) == IF m.type \in WorkerTags THEN WorkerTags ELSE CommanderTags

\* A message of either vocabulary is about to be encoded
RtPick ==
    /\ rtPc = "idle"
    /\ \E m \in Messages(WorkerTags) \cup Messages(CommanderTags) : rtMsg' = m
    /\ rtPc' = "picked"
    /\ UNCHANGED <<rtLine, rtOut>>
    /\ UNCHANGED <<linkVars, registryVars, serviceVars, writeVars, pipeVars, chVars, agVars>>

\* encode(&msg)
RtEncode ==
    /\ rtPc = "picked"
    /\ rtLine' = Encode(rtMsg)
    /\ rtPc' = "encoded"
    /\ UNCHANGED <<rtMsg, rtOut>>
    /\ UNCHANGED <<linkVars, registryVars, serviceVars, writeVars, pipeVars, chVars, agVars>>

\* decode::<WorkerMessage>(&line) or decode::<CommanderMessage>(&line), with
\* the newline or without it
RtDecode ==
    /\ rtPc = "encoded"
    /\ \E line \in {rtLine, SubSeq(rtLine, 1, Len(rtLine) - 1)} :
          rtOut' = Decode(VocabularyOf(rtMsg), line)
    /\ rtPc' = "decoded"
    /\ UNCHANGED <<rtMsg, rtLine>>
    /\ UNCHANGED <<linkVars, registryVars, serviceVars, writeVars, pipeVars, chVars, agVars>>

(* ------------------------------------------------------------------ *)
(* transport::connect on the pipe-based platform                       *)
(* ------------------------------------------------------------------ *)

\* The match in connect()'s loop: what one open() leads to
PipeOpenOutcome(up, attempts) ==
    IF up THEN "connected"
    ELSE IF attempts < PIPE_RETRIES THEN "sleeping"
    ELSE "failed"

\* connect() is called: `let mut attempts = 0`
PipeConnect ==
    /\ pipePc = "idle"
    /\ pipePc' = "opening"
    /\ pipeAttempts' = 0
    /\ pipeOpens' = 0
    /\ pipeSlept' = 0
    /\ UNCHANGED pipeUp
    /\ UNCHANGED <<linkVars, registryVars, serviceVars, writeVars, rtVars, chVars, agVars>>

\* ClientOptions::new().open(&name) and the match on its result
PipeOpen ==
    /\ pipePc = "opening"
    /\ pipeOpens' = pipeOpens + 1
    /\ pipePc' = PipeOpenOutcome(pipeUp, pipeAttempts)
    /\ pipeAttempts' = IF PipeOpenOutcome(pipeUp, pipeAttempts) = "sleeping"
                       THEN pipeAttempts + 1 ELSE pipeAttempts
    /\ UNCHANGED <<pipeSlept, pipeUp>>
    /\ UNCHANGED <<linkVars, registryVars, serviceVars, writeVars, rtVars, chVars, agVars>>

\* tokio::time::sleep(50 ms), then `continue`
PipeSleep ==
    /\ pipePc = "sleeping"
    /\ pipeSlept' = pipeSlept + PIPE_SLEEP_MS
    /\ pipePc' = "opening"
    /\ UNCHANGED <<pipeAttempts, pipeOpens, pipeUp>>
    /\ UNCHANGED <<linkVars, registryVars, serviceVars, writeVars, rtVars, chVars, agVars>>

\* The server makes an instance of the pipe (IpcListener::accept)
PipeServerUp ==
    /\ ~pipeUp
    /\ pipePc \notin {"connected", "failed"}
    /\ pipeUp' = TRUE
    /\ UNCHANGED <<pipePc, pipeAttempts, pipeOpens, pipeSlept>>
    /\ UNCHANGED <<linkVars, registryVars, serviceVars, writeVars, rtVars, chVars, agVars>>

\* The peer of the client's stream writes a line
ClientPeerLine ==
    /\ readerPc = "idle"
    /\ TotalLines < MaxLines
    /\ TotalSteps < MaxSteps
    /\ LinkEvents < MaxEvents
    /\ \E line \in RawClientLines(Len(rawWrote) + 1) :
          /\ c2w' = Append(c2w, line)
          /\ rawWrote' = Append(rawWrote, line)
    /\ UNCHANGED <<registry, conn, inbuf, peerOpen, connWid, delivery, wrote, sent>>
    /\ UNCHANGED <<lastCall, srvCalls, evicted>>
    /\ UNCHANGED <<clientVars, callerVars, readerVars, w2c, peerClosed>>
    /\ UNCHANGED <<serverVars, historyVars>>
    /\ UNCHANGED <<serviceVars, writeVars, outerVars>>

(* ------------------------------------------------------------------ *)
(* Specifications                                                      *)
(* ------------------------------------------------------------------ *)

\* Steps of the worker's caller task around the handshake
CallerHandshakeNext ==
    \/ Connect
    \/ HandshakeSend
    \/ HandshakeTake
    \/ Disconnect

\* Steps of the worker's caller task in request_permission
CallerPermissionNext ==
    \/ RequestStart
    \/ RequestInsert
    \/ RequestWrite
    \/ RequestAwait
    \/ Tick

\* Steps of the server's tasks
ServerNext ==
    \/ ServerStart
    \/ ServerAccept
    \/ ServerRead
    \/ ServerReadEof
    \/ CommanderExit

\* The handshake exchange: the commander answers a Handshake with any ack or
\* not at all, and sends nothing else
HandshakeNext ==
    \/ CallerHandshakeNext
    \/ ReaderHandle
    \/ ReaderEof
    \/ ReaderCancelled
    \/ ServerNext
    \/ CommanderRecv(Acks)

HandshakeSpec == Init /\ [][HandshakeNext]_vars

\* The runtime runs the caller task when it is ready
HandshakeFairSpec == HandshakeSpec /\ WF_vars(HandshakeTake)

\* The permission exchange: the commander accepts a Handshake with FullAck or
\* leaves it unanswered, and sends responses, Cancel and Ping as it likes
PermissionNext ==
    \/ CallerHandshakeNext
    \/ CallerPermissionNext
    \/ ReaderHandle
    \/ ReaderCancelDrain
    \/ ReaderEof
    \/ ReaderCancelled
    \/ ServerNext
    \/ CommanderRecv({FullAck})
    \/ CommanderSend

PermissionSpec == Init /\ [][PermissionNext]_vars

\* The runtime runs a ready task and its timers fire
PermissionFairSpec ==
    PermissionSpec /\ WF_vars(Tick) /\ WF_vars(RequestAwait)

\* Steps of the peers of the server's connections
PeerNext ==
    \E c \in Conns :
        \/ PeerConnect(c)
        \/ PeerWrite(c)
        \/ PeerClose(c)

\* Steps of accept() on a started server and of the read loops it spawns
AcceptSteps ==
    \E c \in Conns :
        \/ SrvAcceptRead(c)
        \/ SrvAcceptPublish(c)
        \/ SrvRead(c)
        \/ SrvReadEof(c)

\* Steps of accept() and of the read loops it spawns
AcceptNext ==
    \/ SrvAcceptNotStarted
    \/ AcceptSteps

\* Calls the orchestration layer makes on the server
CallNext ==
    \/ SrvBroadcast
    \/ SrvStop
    \/ \E w \in WorkerIds :
          \/ SrvSend(w)
          \/ SrvDisconnect(w)

\* The server with its connections
RegistryNext ==
    \/ ServerStart
    \/ PeerNext
    \/ AcceptSteps
    \/ CallNext

RegistrySpec == Init /\ [][RegistryNext]_vars

\* The runtime runs a read loop that has a line or an end of file to read
RegistryFairSpec ==
    RegistrySpec /\ WF_vars(\E c \in Conns : SrvRead(c) \/ SrvReadEof(c))

\* Lines of any content on the connections of the server and on the stream of
\* the client
ResilienceNext ==
    \/ ServerStart
    \/ PeerNext
    \/ AcceptSteps
    \/ Connect
    \/ ClientPeerLine
    \/ ReaderHandle
    \/ ReaderCancelDrain

ResilienceSpec == Init /\ [][ResilienceNext]_vars

\* The runtime runs the read loops of the server and of the client
ResilienceFairSpec ==
    ResilienceSpec
        /\ WF_vars(\E c \in Conns : SrvRead(c) \/ SrvReadEof(c))
        /\ WF_vars(ReaderHandle \/ ReaderCancelDrain)

\* The server from new() to stop() or drop, with its endpoint and receiver
LifecycleNext ==
    \/ ServerStart
    \/ OtherBinds
    \/ SrvStop
    \/ SrvDrop
    \/ SrvTakeReceiver
    \/ SrvAcceptNotStarted
    \/ \E c \in Conns :
          \/ PeerConnect(c)
          \/ PeerWrite(c)
          \/ SrvAcceptRead(c)
          \/ SrvAcceptPublish(c)
          \/ SrvRead(c)
    \/ \E w \in WorkerIds : SrvSend(w)

LifecycleSpec == Init /\ [][LifecycleNext]_vars

\* The calls of IpcClient before connect(), while connected and after
\* disconnect(), with a commander that stays silent
ClientNext ==
    \/ ServerStart
    \/ Connect
    \/ Reconnect
    \/ Disconnect
    \/ HandshakeSend
    \/ HandshakeTake
    \/ CallerPermissionNext
    \/ ReaderCancelled
    \/ \E op \in DOMAIN SendOps : ClientSend(op)

ClientSpec == Init /\ [][ClientNext]_vars

\* The client's read loop with a peer that writes lines of any content,
\* Cancel among them, across disconnect() and a new connect()
CancelNext ==
    \/ ServerStart
    \/ Connect
    \/ Reconnect
    \/ Disconnect
    \/ RequestStart
    \/ RequestInsert
    \/ RequestWrite
    \/ RequestAwait
    \/ ClientPeerLine
    \/ ReaderHandle
    \/ ReaderCancelDrain
    \/ ReaderCancelled

CancelSpec == Init /\ [][CancelNext]_vars

\* Everything together
WriteNext ==
    \/ ServerStart
    \/ \E c \in Conns : PeerConnect(c) \/ PeerWrite(c) \/ PeerClose(c)
    \/ \E c \in Conns : SrvAcceptRead(c) \/ SrvAcceptPublish(c)
    \/ \E t \in Tasks : \E w \in WorkerIds : WrSend(t, w)
    \/ \E t \in Tasks : WrBroadcast(t) \/ WrLock(t) \/ WrChunk(t) \/ WrFail(t)

WriteSpec == Init /\ [][WriteNext]_vars

CodecNext ==
    \/ RtPick
    \/ RtEncode
    \/ RtDecode

CodecSpec == Init /\ [][CodecNext]_vars

PipeNext ==
    \/ PipeConnect
    \/ PipeOpen
    \/ PipeSleep
    \/ PipeServerUp

PipeSpec == Init /\ [][PipeNext]_vars

(* ------------------------------------------------------------------ *)
(* One read loop and the delivery channel, mpsc::channel(100)           *)
(* ------------------------------------------------------------------ *)

\* Variant of SendReady in which a send never waits
SendReadyAlways(q) == TRUE

\* tx.send(..).await completes once the channel has a free slot; until then
\* the read loop is suspended in it
SendReady(q) == Len(q) < CHANNEL_CAPACITY

\* The buffer of mpsc::channel(100) after a value is handed to it: it never
\* holds more than its capacity
ChannelPush(q, item) == IF Len(q) < CHANNEL_CAPACITY THEN Append(q, item) ELSE q

\* The worker id of the read loop's connection
ChWorker == "worker-1"

\* read_worker_messages: read_line returned a line; one that decodes goes to
\* tx.send(), one that does not is logged and the loop reads on
ChRead ==
    /\ chPc = "read"
    /\ chRead < MaxChFrames
    /\ \E line \in LaterLines(1, chRead + 1) :
          IF Decodes(line)
          THEN /\ chPc' = "send"
               /\ chLine' = line
               /\ chRead' = chRead + 1
               /\ UNCHANGED chBad
          ELSE /\ chBad' = TRUE
               /\ UNCHANGED <<chPc, chLine, chRead>>
    /\ UNCHANGED <<chBuf, chGot, chRx, chWaited>>
    /\ UNCHANGED <<linkVars, registryVars, serviceVars, writeVars, pipeVars, rtVars, agVars>>

\* tx.send((worker_id, msg)).await is polled with the channel full and the
\* receiver alive: the read loop is suspended
ChSendPending ==
    /\ chPc = "send"
    /\ chRx
    /\ ~SendReady(chBuf)
    /\ chPc' = "send_wait"
    /\ chWaited' = TRUE
    /\ UNCHANGED <<chLine, chRead, chBuf, chGot, chRx, chBad>>
    /\ UNCHANGED <<linkVars, registryVars, serviceVars, writeVars, pipeVars, rtVars, agVars>>

\* tx.send((worker_id, msg)).await returns Ok: the pair is in the channel
ChSend ==
    /\ chPc \in {"send", "send_wait"}
    /\ chRx
    /\ SendReady(chBuf)
    /\ chBuf' = ChannelPush(chBuf, <<ChWorker, chLine>>)
    /\ chPc' = "read"
    /\ chLine' = EofLine
    /\ UNCHANGED <<chRead, chGot, chRx, chBad, chWaited>>
    /\ UNCHANGED <<linkVars, registryVars, serviceVars, writeVars, pipeVars, rtVars, agVars>>

\* tx.send((worker_id, msg)).await returns Err, the receiver being gone:
\* "Failed to send message to receiver", break
ChSendClosed ==
    /\ chPc \in {"send", "send_wait"}
    /\ ~chRx
    /\ chPc' = "ended"
    /\ chLine' = EofLine
    /\ UNCHANGED <<chRead, chBuf, chGot, chRx, chBad, chWaited>>
    /\ UNCHANGED <<linkVars, registryVars, serviceVars, writeVars, pipeVars, rtVars, agVars>>

\* read_worker_messages: read_line returned Ok(0) or Err(e)
ChEof ==
    /\ chPc = "read"
    /\ chPc' = "ended"
    /\ UNCHANGED <<chLine, chRead, chBuf, chGot, chRx, chBad, chWaited>>
    /\ UNCHANGED <<linkVars, registryVars, serviceVars, writeVars, pipeVars, rtVars, agVars>>

\* The owner of the receiver takes the next pair: rx.recv().await
ChRecv ==
    /\ chRx
    /\ chBuf # <<>>
    /\ chGot' = Append(chGot, Head(chBuf))
    /\ chBuf' = Tail(chBuf)
    /\ UNCHANGED <<chPc, chLine, chRead, chRx, chBad, chWaited>>
    /\ UNCHANGED <<linkVars, registryVars, serviceVars, writeVars, pipeVars, rtVars, agVars>>

\* The receiver is dropped: with the IpcServer when it was never taken, or
\* by the task that took it
ChRxDrop ==
    /\ chRx
    /\ chRx' = FALSE
    /\ UNCHANGED <<chPc, chLine, chRead, chBuf, chGot, chBad, chWaited>>
    /\ UNCHANGED <<linkVars, registryVars, serviceVars, writeVars, pipeVars, rtVars, agVars>>

ChannelNext ==
    \/ ChRead
    \/ ChSendPending
    \/ ChSend
    \/ ChSendClosed
    \/ ChEof
    \/ ChRecv
    \/ ChRxDrop

ChannelSpec == Init /\ [][ChannelNext]_vars

(* ------------------------------------------------------------------ *)
(* Agent::chat and Agent::process_tool_calls                            *)
(* ------------------------------------------------------------------ *)

\* Tools that require confirmation (destructive operations)
DESTRUCTIVE_TOOLS == {"bash", "write_file", "edit_file", "insert_line", "patch_file"}

\* Names a tool call may carry: the destructive tools and one that is not
ToolNames == DESTRUCTIVE_TOOLS \cup {"read_file"}

\* Non-empty batches of at most n tool calls
RECURSIVE BatchesUpTo(_)
BatchesUpTo(n) ==
    IF n = 0 THEN {}
    ELSE {<<t>> : t \in ToolNames}
           \cup BatchesUpTo(n - 1)
           \cup {Append(b, t) : b \in BatchesUpTo(n - 1), t \in ToolNames}

\* AgentConfig::should_auto_approve
ShouldAutoApprove(cfg, name) == cfg.all \/ name \in cfg.tools

\* Variant of RequiresConfirmation that asks for bash only
RequiresConfirmationBashOnly(cfg, name) ==
    name = "bash" /\ ~ShouldAutoApprove(cfg, name)

\* AgentConfig::requires_confirmation
RequiresConfirmation(cfg, name) ==
    name \in DESTRUCTIVE_TOOLS /\ ~ShouldAutoApprove(cfg, name)

\* Agent::should_confirm
ShouldConfirm(cfg, name) == RequiresConfirmation(cfg, name) /\ cfg.confirm

\* Variant of ConfirmArm in which Abort is handled like Deny
ConfirmArmAbortSkips(answer) ==
    IF answer = "Approve" THEN "execute" ELSE "continue"

\* process_tool_calls: the arm of `match self.confirm_tool(tool_call)`:
\* Approve falls through to the execution, Deny does `continue`, Abort `break`
ConfirmArm(answer) ==
    CASE answer = "Approve" -> "execute"
      [] answer = "Deny" -> "continue"
      [] answer = "Abort" -> "break"

\* A ToolResult: the index of its tool call, is_error, and where it was made
ToolResult(i, err, by) == [tool_use_id |-> i, is_error |-> err, by |-> by]

\* AgentOptions: the configuration and the callbacks the agent is built with
AgNew ==
    /\ agPc = "new"
    /\ \E all \in BOOLEAN, tools \in SUBSET {"bash"}, confirm \in BOOLEAN :
          agCfg' = [all |-> all, tools |-> tools, confirm |-> confirm]
    /\ agPc' = "idle"
    /\ UNCHANGED <<agIter, agErrs, agCalls, agBatch, agIdx, agAsked, agRan>>
    /\ UNCHANGED <<agResults, agFlags, agRet, agEnd>>
    /\ UNCHANGED <<linkVars, registryVars, serviceVars, writeVars, pipeVars, rtVars, chVars>>

\* Agent::chat up to the loop: the iteration state is reset
AgChat ==
    /\ agPc = "idle"
    /\ agIter' = 0
    /\ agErrs' = 0
    /\ agPc' = "loop"
    /\ UNCHANGED <<agCfg, agCalls, agBatch, agIdx, agAsked, agRan>>
    /\ UNCHANGED <<agResults, agFlags, agRet, agEnd>>
    /\ UNCHANGED <<linkVars, registryVars, serviceVars, writeVars, pipeVars, rtVars, chVars>>

\* Agent::chat, one pass of the loop up to process_tool_calls: the iteration
\* and time limits, the provider call, the response without tool calls
AgLoop ==
    /\ agPc = "loop"
    /\ agIter' = agIter + 1
    /\ \E timeUp \in BOOLEAN, resp \in {<<>>, <<"error">>} \cup BatchesUpTo(MaxBatch) :
          IF agIter' > MaxIterations
          THEN /\ agEnd' = "iteration_limit"
               /\ agPc' = "returned"
               /\ UNCHANGED <<agCalls, agBatch, agIdx, agAsked, agRan, agResults, agFlags>>
          ELSE IF timeUp
          THEN /\ agEnd' = "time_limit"
               /\ agPc' = "returned"
               /\ UNCHANGED <<agCalls, agBatch, agIdx, agAsked, agRan, agResults, agFlags>>
          ELSE /\ agCalls' = agCalls + 1
               /\ IF resp = <<"error">>
                  THEN /\ agEnd' = "provider_error"
                       /\ agPc' = "returned"
                       /\ UNCHANGED <<agBatch, agIdx, agAsked, agRan, agResults, agFlags>>
                  ELSE IF resp = <<>>
                  THEN /\ agEnd' = "final"
                       /\ agPc' = "returned"
                       /\ UNCHANGED <<agBatch, agIdx, agAsked, agRan, agResults, agFlags>>
                  ELSE /\ agBatch' = resp
                       /\ agIdx' = 1
                       /\ agAsked' = <<>>
                       /\ agRan' = {}
                       /\ agResults' = <<>>
                       /\ agFlags' = NoFlags
                       /\ agPc' = "tools"
                       /\ UNCHANGED agEnd
    /\ UNCHANGED <<agCfg, agErrs, agRet>>
    /\ UNCHANGED <<linkVars, registryVars, serviceVars, writeVars, pipeVars, rtVars, chVars>>

\* process_tool_calls: execute_tool, the statistics and results.push(result)
AgExecute(err) ==
    /\ agRan' = agRan \cup {agIdx}
    /\ agResults' = Append(agResults, ToolResult(agIdx, err, "tool"))
    /\ agFlags' = [agFlags EXCEPT !.has_error = @ \/ err]
    /\ agIdx' = agIdx + 1

\* process_tool_calls: the body of `for tool_call in tool_calls` for one call
AgTool ==
    /\ agPc = "tools"
    /\ ~agFlags.aborted
    /\ agIdx <= Len(agBatch)
    /\ \E answer \in {"Approve", "Deny", "Abort"}, err \in BOOLEAN :
          IF ShouldConfirm(agCfg, agBatch[agIdx])
          THEN /\ agAsked' = Append(agAsked, <<agIdx, answer>>)
               /\ CASE ConfirmArm(answer) = "execute" -> AgExecute(err)
                    [] ConfirmArm(answer) = "continue" ->
                         /\ agResults' = Append(agResults, ToolResult(agIdx, TRUE, "denied"))
                         /\ agFlags' = [agFlags EXCEPT !.has_error = TRUE]
                         /\ agIdx' = agIdx + 1
                         /\ UNCHANGED agRan
                    [] ConfirmArm(answer) = "break" ->
                         /\ agResults' = Append(agResults, ToolResult(agIdx, TRUE, "aborted"))
                         /\ agFlags' = [agFlags EXCEPT !.aborted = TRUE]
                         /\ UNCHANGED <<agIdx, agRan>>
          ELSE /\ AgExecute(err)
               /\ UNCHANGED agAsked
    /\ UNCHANGED <<agPc, agCfg, agIter, agErrs, agCalls, agBatch, agRet, agEnd>>
    /\ UNCHANGED <<linkVars, registryVars, serviceVars, writeVars, pipeVars, rtVars, chVars>>

\* process_tool_calls: after the loop, Err(UserCancelled) or Ok((results,
\* has_error))
AgToolsReturn ==
    /\ agPc = "tools"
    /\ agFlags.aborted \/ agIdx > Len(agBatch)
    /\ agRet' = IF agFlags.aborted THEN "UserCancelled" ELSE "Ok"
    /\ agPc' = "match"
    /\ UNCHANGED <<agCfg, agIter, agErrs, agCalls, agBatch, agIdx, agAsked, agRan>>
    /\ UNCHANGED <<agResults, agFlags, agEnd>>
    /\ UNCHANGED <<linkVars, registryVars, serviceVars, writeVars, pipeVars, rtVars, chVars>>

\* Agent::chat: `match self.process_tool_calls(..).await`.  In the Ok arm the
\* results are moved into add_tool_results and the response is dropped at
\* the end of the pass
AgMatch ==
    /\ agPc = "match"
    /\ IF agRet = "UserCancelled"
       THEN /\ agEnd' = "aborted"
            /\ agPc' = "returned"
            /\ UNCHANGED <<agErrs, agBatch, agIdx, agAsked, agRan, agResults, agFlags, agRet>>
       ELSE /\ agErrs' = IF agFlags.has_error THEN agErrs + 1 ELSE 0
            /\ IF agFlags.has_error /\ agErrs' >= MaxConsecErrors
               THEN agEnd' = "errors" /\ agPc' = "returned"
               ELSE agPc' = "loop" /\ UNCHANGED agEnd
            /\ agBatch' = <<>>
            /\ agIdx' = 0
            /\ agAsked' = <<>>
            /\ agRan' = {}
            /\ agResults' = <<>>
            /\ agFlags' = NoFlags
            /\ agRet' = "none"
    /\ UNCHANGED <<agCfg, agIter, agCalls>>
    /\ UNCHANGED <<linkVars, registryVars, serviceVars, writeVars, pipeVars, rtVars, chVars>>

AgentNext ==
    \/ AgNew
    \/ AgChat
    \/ AgLoop
    \/ AgTool
    \/ AgToolsReturn
    \/ AgMatch

AgentSpec == Init /\ [][AgentNext]_vars

Next ==
    \/ HandshakeNext
    \/ PermissionNext
    \/ RegistryNext
    \/ ResilienceNext
    \/ LifecycleNext
    \/ ClientNext
    \/ CancelNext
    \/ WriteNext
    \/ PipeNext
    \/ CodecNext
    \/ ChannelNext
    \/ AgentNext

Spec == Init /\ [][Next]_vars

(* ------------------------------------------------------------------ *)
(* Properties                                                          *)
(* ------------------------------------------------------------------ *)

\* A request_permission call that has registered its slot and not returned
Registered == callerPc \in {"rp_write", "rp_wait"}

\* The read loop takes the frame at the head of c2w in this step
ReaderTakes(msg) ==
    /\ readerPc = "idle"
    /\ c2w # <<>>
    /\ Head(c2w) = msg
    /\ c2w' = Tail(c2w)

\* C1: once a Cancel has been handled (the flag is set and no Cancel handling
\* is in progress) the pending table is empty and no request_permission call
\* is left waiting on an unresolved slot, whatever the interleaving of the
\* call's flag check and table insert with the Cancel handling.
C1_NoCallerLeftWaitingAfterCancel ==
    (cancelled /\ readerPc # "cancel_drain")
        => /\ pending_permissions = {}
           /\ Registered => slot[curId] \in Results

\* C2: the pending table holds no entry for a sent PermissionRequest whose
\* request_permission call has returned a resolution (a result or a timeout).
C2_ResolvedRequestsLeaveTable ==
    \A id \in ReqIds :
        rpOutcome[id] \in Results \cup {"PermissionTimeout"}
            => id \notin pending_permissions

\* C3: each permission request has at most one completion.  A slot that holds
\* a value never receives another one, a slot whose call has returned (after a
\* value, a Cancel or a timeout) receives nothing, and each call returns one
\* outcome, which never changes and is the slot's value when the wait ends on
\* a slot that holds one.
C3_AtMostOneCompletion ==
    [][\A id \in ReqIds :
          /\ slot[id] \in Results => slot'[id] \in {slot[id], "closed"}
          /\ slot[id] = "closed" => slot'[id] = "closed"
          /\ rpOutcome[id] # "none" => rpOutcome'[id] = rpOutcome[id]
          /\ rpOutcome'[id] # rpOutcome[id]
                => /\ slot'[id] = "closed"
                   /\ (callerPc = "rp_wait" /\ slot[id] \in Results)
                         => rpOutcome'[id] = slot[id]]_vars

\* C3 witness: a PermissionResponse was handled for a request that had been
\* completed before, and that request's call returned the first completion.
C3_Witness ==
    \E id \in ReqIds :
        /\ id \in lateResp
        /\ rpOutcome[id] \in Results \cup {"PermissionTimeout"}

\* C4: the read loop's handling of a Cancel frame sets the cancellation flag,
\* sends Abort into the slot of every request that is in the pending table
\* when it drains it (a slot whose call still waits then holds Abort), and
\* leaves the table empty.
C4_CancelDrainsPending ==
    [][/\ ReaderTakes(CancelMsg) => cancelled'
       /\ (readerPc = "cancel_drain" /\ readerPc' # "cancel_drain")
             => /\ cancelled'
                /\ pending_permissions' = {}
                /\ \A id \in pending_permissions :
                      slot[id] = "open" => slot'[id] = "Abort"]_vars

\* C4 witness: one Cancel took two requests out of the table, the table is
\* empty, the flag is set and the request whose call still waited got Abort.
C4_Witness ==
    /\ Cardinality(lastDrained) = 2
    /\ pending_permissions = {}
    /\ cancelled
    /\ readerPc = "idle"
    /\ \E id \in lastDrained : rpOutcome[id] = "Abort"

\* C5: a request_permission call that starts when a Cancel has been handled
\* returns Cancelled at once: no frame is written, no request id is used and
\* nothing is added to the pending table.
C5_CancelledFailsImmediately ==
    [][(rpCalls' = rpCalls + 1 /\ cancelled)
          => /\ lastRet'.op = "request_permission"
             /\ lastRet'.res = "Cancelled"
             /\ callerPc' = "idle"
             /\ UNCHANGED <<pending_permissions, slot, w2c, nextId, rpOutcome>>]_vars

\* C5 witness: a call made after a Cancel (and even after disconnect) has
\* returned Cancelled.
C5_Witness ==
    /\ cancelled
    /\ lastRet.op = "request_permission"
    /\ lastRet.res = "Cancelled"
    /\ rpCalls >= 1

\* C6: a waiting request_permission call into whose slot nothing has been
\* sent returns only when 300 seconds have passed, and then with
\* PermissionTimeout; and no call waits forever.
C6_TimeoutAtBound ==
    /\ [][(callerPc = "rp_wait" /\ callerPc' # "rp_wait" /\ slot[curId] = "open")
             => /\ waited >= PERMISSION_TIMEOUT_SECS
                /\ rpOutcome'[curId] = "PermissionTimeout"
                /\ lastRet'.res = "PermissionTimeout"]_vars
    /\ [](callerPc = "rp_wait" => <>(callerPc # "rp_wait"))

\* C6 witness: a call has returned PermissionTimeout.
C6_Witness ==
    \E id \in ReqIds :
        /\ rpOutcome[id] = "PermissionTimeout"
        /\ lastRet.res = "PermissionTimeout"

\* C7: Approve enters a request's slot only when the read loop handles a
\* PermissionResponse with that request id and result Approve, and a
\* request_permission call returns Approve only by receiving it from the slot
\* of the id it generated.
C7_ApproveOnlyFromMatchingResponse ==
    [][/\ \A id \in ReqIds :
            /\ (slot'[id] = "Approve" /\ slot[id] # "Approve")
                  => ReaderTakes(PermissionResponseMsg(id, "Approve"))
            /\ (rpOutcome'[id] = "Approve" /\ rpOutcome[id] # "Approve")
                  => (id = curId /\ callerPc = "rp_wait" /\ slot[id] = "Approve")
       /\ (lastRet'.res = "Approve" /\ lastRet' # lastRet)
            => (callerPc = "rp_wait" /\ slot[curId] = "Approve")]_vars

\* C7 witness: one call returned Approve while another request, which was
\* not approved, did not.
C7_Witness ==
    \E id, other \in ReqIds :
        /\ rpOutcome[id] = "Approve"
        /\ rpOutcome[other] \in {"PermissionTimeout", "Abort", "Deny"}

\* C8: if the commander answered the worker's Handshake with a rejecting
\* HandshakeAck, handshake() has not returned an accepted ack.
C8_RejectedHandshakeNeverAccepted ==
    (acksSent # {} /\ \A a \in acksSent : ~a.accepted)
        => ~(lastRet.op = "handshake" /\ lastRet.res = "Ok")

\* C9: when handshake() takes an ack with accepted = false out of the slot it
\* fails with HandshakeFailed carrying the ack's reason ("Handshake rejected"
\* when the ack has none) and leaves the slot empty.
C9_RejectedAckFailsHandshake ==
    [][(callerPc = "hs_take" /\ callerPc' # "hs_take"
          /\ handshake_ack # None /\ ~handshake_ack[1].accepted)
          => /\ lastRet'.op = "handshake"
             /\ lastRet'.res = "HandshakeFailed"
             /\ lastRet'.ack = None
             /\ lastRet'.msg = (IF handshake_ack[1].reason = None
                                 THEN "Handshake rejected"
                                 ELSE handshake_ack[1].reason[1])
             /\ handshake_ack' = None]_vars

\* C9 witness: handshake() has failed with the reason of the rejecting ack.
C9_Witness ==
    /\ lastRet.op = "handshake"
    /\ lastRet.res = "HandshakeFailed"
    /\ lastRet.msg = "quota exceeded"
    /\ handshake_ack = None
    /\ RejectAck \in acksSent

\* C10: when the worker has sent its Handshake and the commander, on
\* receiving it from the delivery channel, has answered with the full ack,
\* a handshake() call that has returned has returned the commander's values.
C10_HandshakeReturnsCommanderValues ==
    (acksSent = {FullAck} /\ hsCalls = 1 /\ lastRet.op = "handshake")
        => /\ lastRet.res = "Ok"
           /\ lastRet.ack[1].auto_approve = <<"read_file">>
           /\ lastRet.ack[1].dangerous_patterns = <<"rm -rf">>
           /\ lastRet.ack[1].timeout_ms = 1234

\* C11: when handshake() takes an accepted ack out of the slot, the ack it
\* returns has, field by field, the taken ack's list when that is non-empty and
\* the config's otherwise, and the taken ack's timeout_ms when that is not
\* zero and the config's otherwise.
C11_AcceptedAckMergedWithConfig ==
    [][(callerPc = "hs_take" /\ callerPc' # "hs_take"
          /\ handshake_ack # None /\ handshake_ack[1].accepted)
          => /\ lastRet'.op = "handshake"
             /\ lastRet'.res = "Ok"
             /\ lastRet'.ack # None
             /\ lastRet'.ack[1].accepted
             /\ lastRet'.ack[1].auto_approve =
                    (IF handshake_ack[1].auto_approve # <<>>
                     THEN handshake_ack[1].auto_approve
                     ELSE LocalConfig.auto_approve)
             /\ lastRet'.ack[1].dangerous_patterns =
                    (IF handshake_ack[1].dangerous_patterns # <<>>
                     THEN handshake_ack[1].dangerous_patterns
                     ELSE LocalConfig.dangerous_patterns)
             /\ lastRet'.ack[1].timeout_ms =
                    (IF handshake_ack[1].timeout_ms # 0
                     THEN handshake_ack[1].timeout_ms
                     ELSE LocalConfig.timeout_ms)]_vars

\* C11 witness: handshake() has returned a policy mixed from an ack and the
\* config: the commander's auto_approve list with the worker's own
\* dangerous_patterns and timeout_ms.
C11_Witness ==
    /\ lastRet.op = "handshake"
    /\ lastRet.res = "Ok"
    /\ lastRet.ack[1].auto_approve = <<"read_file">>
    /\ lastRet.ack[1].dangerous_patterns = LocalConfig.dangerous_patterns
    /\ lastRet.ack[1].timeout_ms = LocalConfig.timeout_ms
    /\ ListOnlyAck \in acksSent

C14_EndRemovesOwnEntryOnly ==
    \A p \in evicted : p[1] = p[2]

\* The first line accept() reads on connection c: the head of what the peer
\* wrote, or nothing when the peer closed without writing
FirstLine(c) == IF inbuf[c] # <<>> THEN Head(inbuf[c]) ELSE EofLine

\* C15 (as stated): every accept() that fails on the first line of a new
\* connection fails with InvalidHandshake.
C15_EveryRejectionIsInvalidHandshake ==
    (lastCall.op = "accept" /\ lastCall.c # NoConn /\ lastCall.res # "Ok")
        => lastCall.res = "InvalidHandshake"

\* C15 (amended): when the first line of a new connection is not a Handshake,
\* accept() fails, with InvalidHandshake for a message of another type and
\* with InvalidMessage for an undecodable line or an immediate end of file;
\* the registry is unchanged, nothing is published on the delivery channel,
\* and no read loop is ever spawned for the connection.
C15_RejectedFirstFrame ==
    [][\A c \in Conns :
          /\ (conn[c] = "queued" /\ conn'[c] # "queued"
                 /\ ~(Decodes(FirstLine(c)) /\ FirstLine(c).type = "Handshake"))
                => /\ conn'[c] = "rejected"
                   /\ lastCall' = Call("accept", "", c,
                                       IF Decodes(FirstLine(c))
                                       THEN "InvalidHandshake" ELSE "InvalidMessage")
                   /\ registry' = registry
                   /\ delivery' = delivery
          /\ conn[c] = "rejected" => conn'[c] = "rejected"]_vars

\* C15 witness: a connection whose first line was a well-formed message other
\* than a Handshake was rejected with InvalidHandshake, and the registry and
\* the delivery channel are empty.
C15_Witness ==
    \E c \in Conns :
        /\ conn[c] = "rejected"
        /\ wrote[c] # <<>>
        /\ wrote[c][1].type = "StatusUpdate"
        /\ lastCall = Call("accept", "", c, "InvalidHandshake")
        /\ ConnectedWorkers(registry) = {}
        /\ delivery = <<>>

\* C16: for each accepted connection, the messages of that connection on the
\* delivery channel are exactly the decodable ones among the lines the server
\* has read from it, in the order the worker wrote them, the Handshake first,
\* each tagged with the worker id of the Handshake; a connection that was not
\* accepted has no message on the channel.
C16_DeliveryInWriteOrder ==
    \A c \in Conns :
        LET delivered == SelectSeq(delivery, LAMBDA e : e[2].id[1] = c)
            consumed  == SubSeq(wrote[c], 1, Len(wrote[c]) - Len(inbuf[c]))
            decoded   == SelectSeq(consumed, Decodes)
        IN IF conn[c] \in {"reading", "ended"}
           THEN /\ delivered = [i \in 1..Len(decoded) |->
                                   <<wrote[c][1].worker_id, decoded[i]>>]
                /\ delivered # <<>>
                /\ delivered[1][2] = wrote[c][1]
                /\ delivered[1][2].type = "Handshake"
           ELSE delivered = <<>>

\* C16 witness: a connection's Handshake and two later frames have all been
\* read and are on the delivery channel.
C16_Witness ==
    \E c \in Conns :
        /\ conn[c] = "reading"
        /\ Len(wrote[c]) = 3
        /\ inbuf[c] = <<>>
        /\ wrote[c][2].type = "StatusUpdate"
        /\ wrote[c][3].type = "StatusUpdate"
        /\ Len(delivery) = 3

\* C17: a line that fails to decode never terminates a connection. On the
\* server, the step of the read loop that reads such a line leaves every
\* connection, the registry, the delivery channel and the other connections'
\* input as they are, and a read loop ends only at end of file. On the client,
\* the step of the read loop that reads such a line leaves the read loop
\* running and the client's state as it is. Again and again, every
\* well-formed frame written after such a line on an accepted connection is
\* on the delivery channel and every Cancel written after such a line to the
\* client has been processed: none of them stays unread.
C17_UndecodableLineSkipped ==
    /\ [][/\ \A c \in Conns :
              /\ (conn[c] = "reading" /\ inbuf[c] # <<>>
                     /\ ~Decodes(Head(inbuf[c]))
                     /\ inbuf'[c] = Tail(inbuf[c]))
                    => /\ conn' = conn
                       /\ registry' = registry
                       /\ delivery' = delivery
                       /\ sent' = sent
                       /\ \A d \in Conns \ {c} : inbuf'[d] = inbuf[d]
              /\ (conn[c] = "reading" /\ conn'[c] # "reading")
                    => (inbuf[c] = <<>> /\ ~peerOpen[c])
          /\ (readerPc = "idle" /\ c2w # <<>>
                 /\ ~Decodes(Head(c2w)) /\ c2w' = Tail(c2w))
                => /\ readerPc' = "idle"
                   /\ clientVars' = clientVars]_vars
    /\ []<>(/\ \A c \in Conns :
                 conn[c] \in {"reading", "ended"} =>
                     \A n \in 2..Len(wrote[c]) :
                         (/\ Decodes(wrote[c][n])
                          /\ \E m \in 1..(n - 1) : ~Decodes(wrote[c][m]))
                           => \E i \in 1..Len(delivery) :
                                  delivery[i] = <<connWid[c], wrote[c][n]>>
             /\ \A k \in 2..Len(rawWrote) :
                   (/\ rawWrote[k].type = "Cancel"
                    /\ \E m \in 1..(k - 1) : ~Decodes(rawWrote[m]))
                     => cancelled)

\* C17 witness: a connection's read loop has read a Handshake, an undecodable
\* line and a well-formed frame; the frame is on the delivery channel and the
\* worker is still registered; the client's read loop has read an undecodable
\* line and is still running.
C17_Witness ==
    /\ \E c \in Conns :
          /\ conn[c] = "reading"
          /\ Len(wrote[c]) = 3
          /\ ~Decodes(wrote[c][2])
          /\ Decodes(wrote[c][3])
          /\ inbuf[c] = <<>>
          /\ registry[connWid[c]] = c
          /\ delivery[Len(delivery)] = <<connWid[c], wrote[c][3]>>
    /\ Len(rawWrote) = 1
    /\ ~Decodes(rawWrote[1])
    /\ c2w = <<>>
    /\ readerPc = "idle"

\* C18: a send() for a worker id that is not in the registry returns
\* WorkerNotConnected, writes nothing to any connection and leaves the
\* registry unchanged, with or without a listener.
C18_SendToUnknownWorker ==
    [][\A w \in WorkerIds :
          (/\ srvCalls' = srvCalls + 1
           /\ lastCall'.op = "send"
           /\ lastCall'.wid = w
           /\ registry[w] = NoConn)
            => /\ lastCall'.res = "WorkerNotConnected"
               /\ sent' = sent
               /\ registry' = registry]_vars

\* C18 witness: on a started server with a worker registered, a send() to the
\* other worker id failed with WorkerNotConnected and nothing has been
\* written to any connection.
C18_Witness ==
    \E w \in WorkerIds :
        /\ listener
        /\ lastCall = Call("send", w, NoConn, "WorkerNotConnected")
        /\ ConnectedWorkers(registry) = WorkerIds \ {w}
        /\ \A c \in Conns : sent[c] = 0

\* C19: a send() whose write fails returns an I/O error and leaves the
\* registry unchanged; afterwards the worker leaves the registry only when a
\* read loop ends, or by disconnect() or stop().
C19_FailedSendKeepsRegistry ==
    [][/\ (srvCalls' = srvCalls + 1 /\ lastCall'.op = "send"
              /\ lastCall'.c # NoConn /\ ~peerOpen[lastCall'.c])
            => /\ lastCall'.res = "Io"
               /\ registry' = registry
               /\ sent' = sent
       /\ \A w \in WorkerIds :
            (registry[w] # NoConn /\ registry'[w] = NoConn)
              => \/ \E c \in Conns : conn[c] = "reading" /\ conn'[c] = "ended"
                 \/ lastCall'.op \in {"disconnect", "stop"} /\ srvCalls' = srvCalls + 1
      ]_vars

\* C19 witness: a send() to a registered worker whose peer has closed failed
\* with an I/O error and the worker is still registered.
C19_Witness ==
    \E w \in WorkerIds :
        /\ lastCall.op = "send"
        /\ lastCall.wid = w
        /\ lastCall.res = "Io"
        /\ registry[w] = lastCall.c
        /\ registry[w] # NoConn
        /\ conn[registry[w]] = "reading"

\* C20: after a send() to a worker has failed to write, the worker is not in
\* the registry.
C20_FailedWriteRemovesWorker ==
    (lastCall.op = "send" /\ lastCall.res = "Io") => registry[lastCall.wid] = NoConn

\* C21: broadcast() writes the frame to every registered worker whose
\* connection takes it, also when the write to another registered worker
\* fails, writes to no other connection, leaves the registry as it is and
\* returns success for every registry content, the empty one included.
C21_BroadcastReachesEveryWorker ==
    [][(srvCalls' = srvCalls + 1 /\ lastCall'.op = "broadcast")
          => /\ lastCall'.res = "Ok"
             /\ registry' = registry
             /\ \A c \in Conns :
                   sent'[c] = IF peerOpen[c] /\ \E w \in WorkerIds : registry[w] = c
                              THEN sent[c] + 1 ELSE sent[c]]_vars

\* C21 witness: a broadcast() with two workers registered, one of them with
\* its peer closed, returned success and wrote the frame to the other.
C21_Witness ==
    \E c, d \in Conns :
        /\ c # d
        /\ lastCall = Call("broadcast", "", NoConn, "Ok")
        /\ \E w \in WorkerIds : registry[w] = c
        /\ \E w \in WorkerIds : registry[w] = d
        /\ ~peerOpen[c]
        /\ peerOpen[d]
        /\ sent[c] = 0
        /\ sent[d] = 1

\* C22: without a listener, before start() or after stop(), accept() on a
\* live server is answered with NotStarted, and no step registers a worker,
\* takes a connection from the listener or publishes a Handshake.
C22_AcceptWithoutListener ==
    /\ []((~listener /\ ~dropped) => ENABLED SrvAcceptNotStarted)
    /\ [][~listener =>
            /\ (lastCall'.op = "accept" /\ lastCall' # lastCall)
                  => lastCall' = Call("accept", "", NoConn, "NotStarted")
            /\ \A w \in WorkerIds : registry'[w] \in {registry[w], NoConn}
            /\ \A c \in Conns : conn[c] = "queued" => conn'[c] = "queued"
            /\ \A i \in 1..Len(delivery') :
                  (i > Len(delivery)) => delivery'[i][2].type # "Handshake"]_vars

\* C22 witness: after stop(), with the Handshake of a connected peer still
\* unread, accept() returned NotStarted; nothing is registered or published.
C22_Witness ==
    /\ ~listener
    /\ srvCalls = 1
    /\ lastCall = Call("accept", "", NoConn, "NotStarted")
    /\ \E c \in Conns :
          /\ conn[c] = "queued"
          /\ inbuf[c] # <<>>
          /\ Head(inbuf[c]).type = "Handshake"
    /\ ConnectedWorkers(registry) = {}
    /\ delivery = <<>>

\* C23: a stop() on a server that was never started returns success and
\* leaves the registry, the listener and the file at the endpoint path as
\* they were.
C23_StopWithoutStartChangesNothing ==
    [][(~started /\ lastCall'.op = "stop" /\ srvCalls' = srvCalls + 1)
          => /\ lastCall'.res = "Ok"
             /\ registry' = registry
             /\ listener' = listener
             /\ endpoint' = endpoint]_vars

\* C24: the server's endpoint exists exactly while the server has a
\* listener: not before start(), from start() on, and no longer after stop()
\* or after the server is dropped. stop() leaves the registry empty, and while
\* the server has no listener the registry stays empty: connected_workers()
\* is empty and every send() fails with WorkerNotConnected.
C24_EndpointLifecycle ==
    /\ [](/\ (endpoint = "own") <=> listener
          /\ ~started => ~listener
          /\ (~listener /\ ~dropped) =>
                /\ ConnectedWorkers(registry) = {}
                /\ \A w \in WorkerIds :
                      SendOutcome(registry, peerOpen, w) = "WorkerNotConnected")
    /\ [][/\ (~listener /\ listener') => endpoint' = "own"
          /\ (lastCall' # lastCall /\ lastCall'.op \in {"stop", "drop"})
                => (endpoint' = "none" /\ ~listener')
          /\ (lastCall'.op = "stop" /\ srvCalls' = srvCalls + 1)
                => ConnectedWorkers(registry') = {}
          /\ (~listener /\ lastCall'.op = "send" /\ srvCalls' = srvCalls + 1)
                => (lastCall'.res = "WorkerNotConnected" /\ sent' = sent)]_vars

\* C24 witness: a started server with a registered worker was stopped; the
\* endpoint is gone and the registry is empty.
C24_Witness ==
    /\ started
    /\ lastCall = Call("stop", "", NoConn, "Ok")
    /\ endpoint = "none"
    /\ ~listener
    /\ \E c \in Conns : conn[c] = "reading"
    /\ ConnectedWorkers(registry) = {}

\* C25: disconnect(w) returns success and leaves w out of the registry, so
\* that is_connected(w) is false and send(w, ..) fails with
\* WorkerNotConnected; the entries of the other workers are as before, and
\* for a w that was not registered nothing changes. An id that is out of the
\* registry comes back only by accept() registering a new connection whose
\* Handshake carries it.
C25_DisconnectRemovesOnlyThatWorker ==
    [][/\ \A w \in WorkerIds :
            (lastCall'.op = "disconnect" /\ lastCall'.wid = w
               /\ srvCalls' = srvCalls + 1)
              => /\ lastCall'.res = "Ok"
                 /\ ~IsConnected(registry', w)
                 /\ SendOutcome(registry', peerOpen', w) = "WorkerNotConnected"
                 /\ \A v \in WorkerIds \ {w} : registry'[v] = registry[v]
                 /\ ~IsConnected(registry, w) => registry' = registry
                 /\ sent' = sent
                 /\ conn' = conn
       /\ \A w \in WorkerIds :
            (~IsConnected(registry, w) /\ IsConnected(registry', w))
              => \E c \in Conns :
                    /\ conn[c] = "queued"
                    /\ conn'[c] = "registered"
                    /\ Head(inbuf[c]) = HandshakeLine(w, c, 1)
                    /\ registry'[w] = c]_vars

\* C25 witness: with two workers registered, one was disconnected; it is out
\* of the registry and the other is still in it.
C25_Witness ==
    \E w \in WorkerIds, v \in WorkerIds :
        /\ v # w
        /\ lastCall.op = "disconnect"
        /\ lastCall.wid = w
        /\ lastCall.c # NoConn
        /\ lastCall.res = "Ok"
        /\ ~IsConnected(registry, w)
        /\ IsConnected(registry, v)

\* C26: the receiver of the delivery channel is handed out at most once: it
\* is in the server until the first take_receiver(), that call yields it, and
\* every later call yields nothing.
C26_SingleReceiver ==
    /\ [](/\ receivers <= 1
          /\ incoming_rx <=> (receivers = 0 /\ ~dropped))
    /\ [][(lastCall'.op = "take_receiver" /\ lastCall' # lastCall)
            => IF receivers = 0
               THEN /\ lastCall'.res = "Some"
                    /\ receivers' = 1
                    /\ ~incoming_rx'
               ELSE /\ lastCall'.res = "None"
                    /\ receivers' = receivers
                    /\ ~incoming_rx']_vars

\* C26 witness: the receiver has been taken and a later take_receiver()
\* yielded nothing.
C26_Witness ==
    /\ receivers = 1
    /\ ~incoming_rx
    /\ ~dropped
    /\ lastCall = Call("take_receiver", "", NoConn, "None")

\* C27: a handshake(), a request_permission() on a client that is not
\* cancelled, or a send_*() made while the client holds no write half returns
\* NotConnected, writes no frame, and leaves the pending table, the completion
\* slots, the ack slot and the cancellation flag as they were.
C27_NotConnectedWithoutWriter ==
    [][(/\ ~writer
        /\ \/ hsCalls' = hsCalls + 1
           \/ rpCalls' = rpCalls + 1 /\ ~cancelled
           \/ lastRet' # lastRet /\ lastRet'.op \in DOMAIN SendOps)
          => /\ lastRet'.res = "NotConnected"
             /\ hsCalls' = hsCalls + 1 => lastRet'.op = "handshake"
             /\ rpCalls' = rpCalls + 1 => lastRet'.op = "request_permission"
             /\ callerPc' = "idle"
             /\ w2c' = w2c
             /\ UNCHANGED <<pending_permissions, slot, handshake_ack, cancelled>>]_vars

\* C27 witness: after a disconnect(), with an entry still in the pending
\* table, send_status() returned NotConnected.
C27_Witness ==
    /\ ~writer
    /\ readerPc # "none"
    /\ pending_permissions # {}
    /\ ~cancelled
    /\ lastRet = Ret("send_status", "NotConnected")

\* C28: when the read loop handles a PermissionResponse whose request id is
\* not in the pending table, the table, every completion slot, the
\* cancellation flag and the ack slot stay as they are.
C28_UnknownResponseDropped ==
    [][(/\ readerPc = "idle"
        /\ c2w # <<>>
        /\ c2w' = Tail(c2w)
        /\ Head(c2w).type = "PermissionResponse"
        /\ Head(c2w).request_id \notin pending_permissions)
          => /\ UNCHANGED <<pending_permissions, slot, cancelled, handshake_ack>>
             /\ readerPc' = "idle"]_vars

\* C28 witness: a request was resolved by its response, and a second
\* response with the same id, handled after the first, was dropped.
C28_Witness ==
    \E id \in lateResp :
        /\ rpOutcome[id] \in {"Approve", "Deny"}
        /\ slot[id] = "closed"
        /\ id \notin pending_permissions
        /\ c2w = <<>>
        /\ readerPc = "idle"

\* C29: the cancellation flag is false on a new client and no step clears it
\* once it is set, a disconnect() and a later connect() included; a handled
\* Cancel leaves the flag set and the pending table empty, and handling a
\* Cancel in such a state changes nothing of the client's state.
C29_CancelIdempotentFlagMonotone ==
    /\ ~cancelled
    /\ [][/\ cancelled => cancelled'
          /\ (readerPc = "cancel_drain" /\ readerPc' = "idle")
                => (cancelled' /\ pending_permissions' = {})
          /\ (/\ cancelled
              /\ pending_permissions = {}
              /\ \/ readerPc = "cancel_drain" /\ readerPc' = "idle"
                 \/ readerPc = "idle" /\ readerPc' = "cancel_drain")
                => UNCHANGED <<pending_permissions, cancelled, handshake_ack, slot>>]_vars

\* C29 witness: a Cancel set the flag, the client disconnected and connected
\* again with the flag still set, and the read loop of the new connection is
\* handling another Cancel.
C29_Witness ==
    /\ reconnectFlag = "set"
    /\ cancelled
    /\ writer
    /\ readerPc = "cancel_drain"
    /\ pending_permissions = {}
    /\ \E id \in ReqIds : rpOutcome[id] = "Abort"

\* The chunks of every frame on a stream are next to each other and in
\* order, and a frame that is not complete is the last thing on the stream
WholeFrames(s) ==
    \A i \in 1..Len(s) :
        /\ s[i][2] > 1 => (i > 1 /\ s[i - 1] = <<s[i][1], s[i][2] - 1>>)
        /\ (s[i][2] < FrameChunks /\ i < Len(s)) => s[i + 1] = <<s[i][1], s[i][2] + 1>>

\* C30: with send() and broadcast() calls in progress at once, no
\* connection's stream holds a frame whose chunks are mixed with those of
\* another frame, and a frame that is part-written on an open stream belongs
\* to the call that holds that connection's write lock.
C30_WritesSerialized ==
    \A c \in Conns :
        /\ WholeFrames(wire[c])
        /\ (/\ wire[c] # <<>>
            /\ wire[c][Len(wire[c])][2] < FrameChunks
            /\ peerOpen[c])
              => (/\ wlock[c] = wire[c][Len(wire[c])][1]
                  /\ wtask[wlock[c]].pc = "write"
                  /\ wtask[wlock[c]].conn = c)

\* C30 witness: a send() and a broadcast() target the same connection; one
\* holds the lock with its frame part-written, the other waits for the lock.
C30_Witness ==
    \E a, b \in Tasks : \E c \in Conns :
        /\ {wtask[a].op, wtask[b].op} = {"send", "broadcast"}
        /\ wtask[a].pc = "write" /\ wtask[a].conn = c /\ wtask[a].off >= 1
        /\ wtask[b].pc = "lock" /\ wtask[b].conn = c
        /\ wlock[c] = a
        /\ wire[c] # <<>>

\* C31: while another server is listening on the path, no step (a start()
\* of this server included) makes this server listen on it or puts this
\* server's endpoint in the place of the other server's.
C31_StartFailsOnLiveEndpoint ==
    [][(endpoint = "live" /\ ~listener)
          => (~listener' /\ endpoint' # "own")]_vars

\* C32: a connect() on the pipe-based platform opens the pipe at most 50
\* times, and ends: with the stream at the first open that succeeds, with
\* the error of the last open after the final failed one.
C32_AtMostFiftyOpens ==
    /\ pipeOpens <= 50
    /\ pipePc = "connected" => pipeUp
    /\ pipePc = "failed" => ~pipeUp

C34_FailedWriteLeavesNoEntry ==
    [][(callerPc = "rp_write" /\ callerPc' = "idle")
          => /\ lastRet' = Ret("request_permission", "Io")
             /\ pending_permissions' = pending_permissions \ {curId}]_vars

\* C35: while a send() or broadcast() is in the middle of its write to one
\* connection, the accept() of a handshake that is ready on another
\* connection and the deregistration by the read loop of another connection
\* whose peer has closed can take their step.
C35_WriteDoesNotBlockMembership ==
    \A t \in Tasks : \A c \in Conns :
        (wtask[t].pc = "write" /\ wtask[t].conn # c /\ ~dropped)
          => /\ (/\ listener
                 /\ conn[c] = "queued"
                 /\ inbuf[c] # <<>>
                 /\ FirstLine(c).type = "Handshake"
                 /\ FirstLine(c).worker_id # connWid[wtask[t].conn])
                   => ENABLED SrvAcceptRead(c)
             /\ (/\ conn[c] = "reading"
                 /\ inbuf[c] = <<>>
                 /\ ~peerOpen[c]
                 /\ connWid[c] # connWid[wtask[t].conn])
                   => ENABLED SrvReadEof(c)

\* C36: once disconnect(w) has returned for the connection registered under
\* w, or stop() has returned, the read loop of that connection publishes
\* nothing more on the delivery channel.
C36_NoDeliveryAfterDisconnect ==
    [][\A c \in Conns :
          (/\ conn[c] = "reading"
           /\ \/ lastCall.op = "disconnect" /\ lastCall.c = c
              \/ lastCall.op = "stop")
            => (delivery' = delivery \/ inbuf'[c] = inbuf[c])]_vars

\* C37: when the read loop ends on EOF or a read error, the pending table, the
\* slots and the cancellation flag are left as they were; a request_permission
\* call that is waiting with its entry still in the table after the loop has
\* ended returns only once 300 seconds have passed, with PermissionTimeout,
\* and it does return.
C37_EofLeavesRequestToTimeOut ==
    /\ [][(readerPc = "idle" /\ readerPc' = "stopped" /\ peerClosed /\ c2w = <<>>
              /\ cancelSignal' = cancelSignal)
             => /\ pending_permissions' = pending_permissions
                /\ slot' = slot
                /\ cancelled' = cancelled]_vars
    /\ [][(readerPc = "stopped" /\ callerPc = "rp_wait" /\ callerPc' # "rp_wait"
              /\ curId \in pending_permissions)
             => /\ waited >= PERMISSION_TIMEOUT_SECS
                /\ lastRet' = Ret("request_permission", "PermissionTimeout")]_vars
    /\ []((readerPc = "stopped" /\ callerPc = "rp_wait") => <>(callerPc # "rp_wait"))

\* C37 witness: the read loop has ended at EOF, the call that was waiting has
\* returned PermissionTimeout, its entry is still in the table and the
\* cancellation flag is clear.
C37_Witness ==
    /\ readerPc = "stopped"
    /\ peerClosed
    /\ callerPc = "idle"
    /\ lastRet = Ret("request_permission", "PermissionTimeout")
    /\ curId \in pending_permissions
    /\ ~cancelled

\* The pairs of the first n messages the read loop decoded, in order
ChDecodedPairs(n) == [i \in 1..n |-> <<ChWorker, FrameLine(1, i)>>]

\* C38: while the receiver of the delivery channel exists, the pairs it has
\* received, followed by those in the channel, followed by the one a send()
\* of the read loop is holding, are exactly the messages the read loop has
\* decoded, each once and in order; the channel never holds more than 100,
\* and a frame that meets a full channel is held until there is room.
C38_EveryDecodedFramePublishedOnce ==
    chRx =>
        /\ chGot \o chBuf \o (IF chPc \in {"send", "send_wait"}
                              THEN <<<<ChWorker, chLine>>>> ELSE <<>>)
              = ChDecodedPairs(chRead)
        /\ Len(chBuf) <= CHANNEL_CAPACITY
        /\ (chPc = "send_wait" /\ Len(chBuf) = CHANNEL_CAPACITY) => ~ENABLED ChSend

\* C38 witness: a send() of the read loop met the full channel, waited, and
\* its frame is now the last of a channel that is full again.
C38_Witness ==
    /\ chRx
    /\ chWaited
    /\ chPc = "read"
    /\ Len(chBuf) = CHANNEL_CAPACITY
    /\ chBuf[CHANNEL_CAPACITY] = <<ChWorker, FrameLine(1, chRead)>>
    /\ chRead > CHANNEL_CAPACITY
    /\ chBad

\* The answer on_confirm gave for tool call i of the batch, "none" if it was
\* not asked
AnswerFor(i) ==
    IF \E k \in 1..Len(agAsked) : agAsked[k][1] = i
    THEN agAsked[CHOOSE k \in 1..Len(agAsked) : agAsked[k][1] = i][2]
    ELSE "none"

\* C39: with on_confirm installed, a tool call whose tool is one of bash,
\* write_file, edit_file, insert_line, patch_file and is not auto-approved
\* has been executed only if on_confirm answered Approve for it; when the
\* answer is Deny the call is not executed, an error result is recorded for
\* it and the loop goes on to the next tool call.
C39_DestructiveNeedsApprove ==
    /\ [](\A i \in 1..Len(agBatch) :
            (/\ agCfg.confirm
             /\ agBatch[i] \in {"bash", "write_file", "edit_file", "insert_line", "patch_file"}
             /\ ~agCfg.all
             /\ agBatch[i] \notin agCfg.tools)
              => /\ i \in agRan => AnswerFor(i) = "Approve"
                 /\ AnswerFor(i) = "Deny"
                       => /\ i \notin agRan
                          /\ \E k \in 1..Len(agResults) :
                                /\ agResults[k].tool_use_id = i
                                /\ agResults[k].is_error)
    /\ [][(agPc = "tools" /\ agAsked' = Append(agAsked, <<agIdx, "Deny">>))
             => /\ agRan' = agRan
                /\ agIdx' = agIdx + 1
                /\ agPc' = "tools"
                /\ ~agFlags'.aborted]_vars

\* C39 witness: of a batch of two destructive tool calls under on_confirm,
\* the first was denied and not executed, the second approved and executed.
C39_Witness ==
    /\ agCfg.confirm /\ ~agCfg.all /\ agCfg.tools = {}
    /\ agBatch = <<"patch_file", "insert_line">>
    /\ AnswerFor(1) = "Deny"
    /\ AnswerFor(2) = "Approve"
    /\ agRan = {2}
    /\ Len(agResults) = 2

\* C40: once on_confirm has answered Abort for a tool call of the batch,
\* neither that call nor any later call of the batch is executed, no later
\* call is put to on_confirm, process_tool_calls returns UserCancelled, and
\* chat() leaves its loop for that reason without another provider call.
C40_AbortEndsBatchAndTurn ==
    /\ [](\A i \in 1..Len(agBatch) :
            AnswerFor(i) = "Abort"
              => /\ \A j \in i..Len(agBatch) : j \notin agRan
                 /\ \A j \in (i + 1)..Len(agBatch) : AnswerFor(j) = "none"
                 /\ agPc \in {"match", "returned"} => agRet = "UserCancelled"
                 /\ agPc = "returned" => agEnd = "aborted")
    /\ [][(\E i \in 1..Len(agBatch) : AnswerFor(i) = "Abort")
             => /\ agCalls' = agCalls
                /\ agRan' = agRan
                /\ agAsked' = agAsked
                /\ agPc' \in {"match", "returned"}]_vars

\* C40 witness: on_confirm answered Abort for the first of two destructive
\* tool calls; nothing was executed, the second call was never asked about,
\* and chat() has returned after its one provider call.
C40_Witness ==
    /\ agBatch = <<"bash", "edit_file">>
    /\ AnswerFor(1) = "Abort"
    /\ AnswerFor(2) = "none"
    /\ agRan = {}
    /\ agRet = "UserCancelled"
    /\ agPc = "returned"
    /\ agEnd = "aborted"
    /\ agCalls = 1

====
